---------------------------- MODULE Spec2Model ----------------------------
(***************************************************************************)
(* A model of the CHIP-8 emulator: the instruction decoder/executor        *)
(* (Hardware), the execution scheduler (Chip8Runner), the VM thread loop   *)
(* (Chip8::run), and the application event loop that consumes the VM's     *)
(* output effects and acknowledges sprite draws.                           *)
(*                                                                         *)
(* Representation notes.                                                   *)
(*  - memory is kept sparse: a function whose domain holds the cells that  *)
(*    were written (load_program, FX33, FX55); any other cell reads as the *)
(*    font byte (addresses 0..79) or 0, exactly the array the constructor  *)
(*    builds.                                                              *)
(*  - the frame buffer is kept sparse too: a function from the            *)
(*    coordinates <<x, y>> of the pixels that are not [0,0,0,0] to their   *)
(*    colour.  Colours are small integers, 0 standing for [0,0,0,0].       *)
(*  - a Rust panic of a VM thread ends that thread: the VM's state becomes *)
(*    "panicked" and it takes no further step.                             *)
(***************************************************************************)
EXTENDS Integers, Sequences, FiniteSets, TLC

\* ------------------------------------------------------------------------
\* Program constants
\* ------------------------------------------------------------------------
MEM_SIZE == 4096
STACK_SIZE == 32
NUM_REGS == 16
SCREEN_WIDTH == 64
SCREEN_HEIGHT == 32
PROGRAM_START == 512
SPRITE_ROWS == 16
CYCLES_PER_TICK == 18
U16 == 65536
U8 == 256

FONT ==
  << 240, 144, 144, 144, 240,   32,  96,  32,  32, 112,
     240,  16, 240, 128, 240,  240,  16, 240,  16, 240,
     144, 144, 240,  16,  16,  240, 128, 240,  16, 240,
     240, 128, 240, 144, 240,  240,  16,  32,  64,  64,
     240, 144, 240, 144, 240,  240, 144, 240,  16, 240,
     240, 144, 240, 144, 144,  224, 144, 224, 144, 224,
     240, 128, 128, 128, 240,  224, 144, 144, 144, 224,
     240, 128, 240, 128, 240,  240, 128, 240, 128, 128 >>

\* ------------------------------------------------------------------------
\* Bit arithmetic on machine words
\* ------------------------------------------------------------------------
Bit(v, k) == (v \div (2 ^ k)) % 2

BitAnd(a, b) ==
  LET f[k \in 0..16] ==
        IF k = 16 THEN 0 ELSE Bit(a, k) * Bit(b, k) * (2 ^ k) + f[k + 1]
  IN f[0]

BitOr(a, b) ==
  LET f[k \in 0..16] ==
        IF k = 16 THEN 0
        ELSE (IF Bit(a, k) + Bit(b, k) > 0 THEN 2 ^ k ELSE 0) + f[k + 1]
  IN f[0]

BitXor(a, b) ==
  LET f[k \in 0..16] ==
        IF k = 16 THEN 0
        ELSE (IF Bit(a, k) # Bit(b, k) THEN 2 ^ k ELSE 0) + f[k + 1]
  IN f[0]

\* u16::leading_zeros
LeadingZeros16(v) ==
  IF v = 0 THEN 16
  ELSE 15 - (CHOOSE k \in 0..15 : Bit(v, k) = 1 /\ \A j \in (k + 1)..15 : Bit(v, j) = 0)

\* ------------------------------------------------------------------------
\* Memory and frame buffer
\* ------------------------------------------------------------------------
MemRead(mem, a) ==
  IF a \in DOMAIN mem THEN mem[a]
  ELSE IF a < Len(FONT) THEN FONT[a + 1] ELSE 0

MemWrite(mem, a, v) ==
  [b \in (DOMAIN mem) \cup {a} |-> IF b = a THEN v ELSE mem[b]]

\* Hardware::load_program: copy the program bytes to 0x200..
LoadProgram(mem, program) ==
  [b \in (DOMAIN mem) \cup {PROGRAM_START + k - 1 : k \in 1..Len(program)} |->
     IF b >= PROGRAM_START /\ b < PROGRAM_START + Len(program)
     THEN program[b - PROGRAM_START + 1]
     ELSE mem[b]]

BLACK == 0

PixelAt(px, x, y) == IF <<x, y>> \in DOMAIN px THEN px[<<x, y>>] ELSE BLACK

Lit(px, x, y) == PixelAt(px, x, y) # BLACK


\* ------------------------------------------------------------------------
\* Hardware (src/chip8/hardware.rs)
\* ------------------------------------------------------------------------
Generations == {"COSMAC", "Super"}

\* Hardware::default
HardwareDefault ==
  [ memory       |-> << >>,
    stack        |-> [k \in 0..(STACK_SIZE - 1) |-> 0],
    stack_frame  |-> 0,
    i            |-> 0,
    registers    |-> [k \in 0..(NUM_REGS - 1) |-> 0],
    pc           |-> PROGRAM_START,
    delay_timer  |-> 0,
    sound_timer  |-> 0,
    generation   |-> "Super",
    display_sync |-> TRUE ]

\* The outcome of one operation on the hardware: the next hardware state,
\* the output effects sent on the display bus, and whether the thread
\* panicked (the hardware state is then the one the panic interrupted).
Done(hw)    == [hw |-> hw, out |-> << >>, panic |-> FALSE]
Emit(hw, e) == [hw |-> hw, out |-> << e >>, panic |-> FALSE]
Panic(hw)   == [hw |-> hw, out |-> << >>, panic |-> TRUE]

ClearScreenEffect == [type |-> "ClearScreen"]
DrawSpriteEffect(sprite, x, y) ==
  [type |-> "DrawSprite", sprite |-> sprite, x |-> x, y |-> y]

\* (a mutant of Fetch: pc is not advanced)
Fetch_NoAdvance(hw) ==
  IF hw.pc + 1 >= MEM_SIZE
  THEN [instr |-> 0, hw |-> hw, panic |-> TRUE]
  ELSE [instr |-> MemRead(hw.memory, hw.pc) * 256 + MemRead(hw.memory, hw.pc + 1),
        hw    |-> hw,
        panic |-> FALSE]

\* Hardware::fetch: the big-endian word at pc, pc advanced by 2.  Indexing
\* memory at pc or pc + 1 beyond the array panics.
Fetch(hw) ==
  IF hw.pc + 1 >= MEM_SIZE
  THEN [instr |-> 0, hw |-> hw, panic |-> TRUE]
  ELSE [instr |-> MemRead(hw.memory, hw.pc) * 256 + MemRead(hw.memory, hw.pc + 1),
        hw    |-> [hw EXCEPT !.pc = hw.pc + 2],
        panic |-> FALSE]

\* Hardware::set_flag
SetFlag(hw, is_set) ==
  [hw EXCEPT !.registers[15] = IF is_set THEN 1 ELSE 0]

SetReg(hw, x, v) == [hw EXCEPT !.registers[x] = v]

\* (0x0, 0x0, 0xe, 0x0)
OpClearScreen(hw) == Emit(hw, ClearScreenEffect)

\* (0x0, 0x0, 0xe, 0xe): stack_frame is an i8; a negative value cast to usize
\* indexes outside the stack and panics.
OpReturn(hw) ==
  LET sf == hw.stack_frame - 1
  IN IF sf < 0 \/ sf >= STACK_SIZE
     THEN Panic([hw EXCEPT !.stack_frame = sf])
     ELSE Done([hw EXCEPT !.stack_frame = sf, !.pc = hw.stack[sf]])

\* (0x1, _, _, _)
OpJump(hw, nnn) == Done([hw EXCEPT !.pc = nnn])

\* (mutants of OpCall: the stack index wraps instead of panicking; the
\* address of the call itself is pushed)
OpCall_Wrap(hw, nnn) ==
  Done([hw EXCEPT !.stack[hw.stack_frame % STACK_SIZE] = hw.pc,
                  !.stack_frame = hw.stack_frame + 1,
                  !.pc = nnn])

OpCall_PushCallSite(hw, nnn) ==
  IF hw.stack_frame < 0 \/ hw.stack_frame >= STACK_SIZE
  THEN Panic(hw)
  ELSE Done([hw EXCEPT !.stack[hw.stack_frame] = hw.pc - 2,
                       !.stack_frame = hw.stack_frame + 1,
                       !.pc = nnn])

\* (0x2, _, _, _)
OpCall(hw, nnn) ==
  IF hw.stack_frame < 0 \/ hw.stack_frame >= STACK_SIZE
  THEN Panic(hw)
  ELSE Done([hw EXCEPT !.stack[hw.stack_frame] = hw.pc,
                       !.stack_frame = hw.stack_frame + 1,
                       !.pc = nnn])

Skip(hw, cond) == Done(IF cond THEN [hw EXCEPT !.pc = hw.pc + 2] ELSE hw)

\* (0x3, _, _, _) and (0x4, _, _, _)
OpSkipEqImm(hw, x, nn)  == Skip(hw, hw.registers[x] = nn)
OpSkipNeImm(hw, x, nn)  == Skip(hw, hw.registers[x] # nn)
\* (a mutant of OpSkipEqReg: the comparison is also recorded in the flag)
OpSkipEqReg_Flag(hw, x, y) ==
  Done(SetFlag(Skip(hw, hw.registers[x] = hw.registers[y]).hw,
               hw.registers[x] = hw.registers[y]))

\* (0x5, _, _, 0) and (0x9, _, _, 0)
OpSkipEqReg(hw, x, y)   == Skip(hw, hw.registers[x] = hw.registers[y])
OpSkipNeReg(hw, x, y)   == Skip(hw, hw.registers[x] # hw.registers[y])

\* (0x6, _, _, _)
OpSetImm(hw, x, nn) == Done(SetReg(hw, x, nn))
\* (a mutant of OpAddImm: the carry goes to the flag register, as in 8XY4)
OpAddImm_Carry(hw, x, nn) ==
  Done(SetFlag(SetReg(hw, x, (hw.registers[x] + nn) % U8),
               hw.registers[x] + nn > U8 - 1))

\* (0x7, _, _, _)
OpAddImm(hw, x, nn) == Done(SetReg(hw, x, (hw.registers[x] + nn) % U8))

\* (0x8, _, _, 0..3)
OpCopy(hw, x, y) == Done(SetReg(hw, x, hw.registers[y]))
OpOr(hw, x, y)   == Done(SetReg(hw, x, BitOr(hw.registers[x], hw.registers[y])))
OpAnd(hw, x, y)  == Done(SetReg(hw, x, BitAnd(hw.registers[x], hw.registers[y])))
OpXor(hw, x, y)  == Done(SetReg(hw, x, BitXor(hw.registers[x], hw.registers[y])))

\* (0x8, _, _, 4): checked_add decides the flag, wrapping_add the value; the
\* flag is written last.
OpAddReg_FlagFirst(hw, x, y) ==
  LET overflow == hw.registers[x] + hw.registers[y] > U8 - 1
      h1 == SetFlag(hw, overflow)
  IN Done(SetReg(h1, x, (hw.registers[x] + hw.registers[y]) % U8))

OpAddReg(hw, x, y) ==
  LET overflow == hw.registers[x] + hw.registers[y] > U8 - 1
      h1 == SetReg(hw, x, (hw.registers[x] + hw.registers[y]) % U8)
  IN Done(SetFlag(h1, overflow))

\* (a mutant of OpSubReg: the comparison is made after the subtraction)
OpSubReg_FlagAfter(hw, x, y) ==
  LET h1 == SetReg(hw, x, (hw.registers[x] - hw.registers[y]) % U8)
      flag == h1.registers[x] >= h1.registers[y]
  IN Done(SetFlag(h1, flag))

\* (0x8, _, _, 5)
OpSubReg(hw, x, y) ==
  LET flag == hw.registers[x] >= hw.registers[y]
      h1 == SetReg(hw, x, (hw.registers[x] - hw.registers[y]) % U8)
  IN Done(SetFlag(h1, flag))

\* (a mutant of OpShiftRight: reg[x] is shifted in place in both generations)
OpShiftRight_InPlace(hw, x, y) ==
  LET flag == hw.registers[x] % 2 = 1
      h1 == SetReg(hw, x, hw.registers[x] \div 2)
  IN Done(SetFlag(h1, flag))

\* (0x8, _, _, 6)
OpShiftRight(hw, x, y) ==
  LET h0 == IF hw.generation = "COSMAC" THEN SetReg(hw, x, hw.registers[y]) ELSE hw
      flag == h0.registers[x] % 2 = 1
      h1 == SetReg(h0, x, h0.registers[x] \div 2)
  IN Done(SetFlag(h1, flag))

\* (0x8, _, _, 7)
OpSubRev(hw, x, y) ==
  LET flag == hw.registers[x] <= hw.registers[y]
      h1 == SetReg(hw, x, (hw.registers[y] - hw.registers[x]) % U8)
  IN Done(SetFlag(h1, flag))

\* (0x8, _, _, 0xe)
OpShiftLeft(hw, x, y) ==
  LET h0 == IF hw.generation = "COSMAC" THEN SetReg(hw, x, hw.registers[y]) ELSE hw
      flag == h0.registers[x] \div 128 = 1
      h1 == SetReg(h0, x, (h0.registers[x] * 2) % U8)
  IN Done(SetFlag(h1, flag))

\* (0xa, _, _, _)
OpSetIndex(hw, nnn) == Done([hw EXCEPT !.i = nnn])

\* (0xb, _, _, _)
OpJumpOffset(hw, x, nnn) ==
  Done([hw EXCEPT !.pc = (IF hw.generation = "COSMAC"
                          THEN hw.registers[0] ELSE hw.registers[x]) + nnn])

\* (0xc, _, _, _): number is the byte fastrand::u8(..) returned
OpRandom(hw, x, nn, number) == Done(SetReg(hw, x, BitAnd(number, nn)))

\* (a mutant of RowHit: the columns wrap around the right edge)
RowHit_Wrap(px, row_i, sprite_row, x) ==
  /\ row_i < SCREEN_HEIGHT
  /\ \E c \in 0..7 :
        /\ Bit(sprite_row, 7 - c) = 1
        /\ Lit(px, (x + c) % SCREEN_WIDTH, row_i)

\* pixel_row(pixels, row_i) followed by chunks_exact(4).skip(x).take(8)
\* .enumerate().filter(bit 7 - i of sprite_row).any(pixel != [0,0,0,0]):
\* a row outside the frame is the empty slice, and skip/take stop at the
\* right edge of the row.
RowHit(px, row_i, sprite_row, x) ==
  /\ row_i < SCREEN_HEIGHT
  /\ \E c \in 0..7 :
        /\ x + c < SCREEN_WIDTH
        /\ Bit(sprite_row, 7 - c) = 1
        /\ Lit(px, x + c, row_i)

\* The loop over the 16 sprite rows: rows equal to 0 are skipped, the first
\* row that hits sets the flag and ends the loop.
Collision(px, sprite, x, y) ==
  \E n \in 0..(SPRITE_ROWS - 1) :
     /\ sprite[n + 1] # 0
     /\ RowHit(px, y + n, sprite[n + 1], x)

\* i + n as u16 for the sprite row n: -1 stands for a panic (the u16 sum
\* overflows in a build with overflow checks, or the address is outside
\* memory).
SpriteRowAddr(hw, n, checked) ==
  LET sum == hw.i + n
      a == IF sum >= U16 THEN (IF checked THEN -1 ELSE sum % U16) ELSE sum
  IN IF a >= MEM_SIZE THEN -1 ELSE a

\* The draw finds display_sync false: pc is rewound and nothing else is done
DrawRetry_NoRewind(hw) == Done(hw)

DrawRetry(hw) == Done([hw EXCEPT !.pc = hw.pc - 2])

\* The draw holds the credit: the credit is cleared, the sprite rows are read
\* from memory[i..i + sprite_height], the effect is sent and the flag is set
\* from the frame buffer as it is now.
DrawWithCredit(hw, reg_x, reg_y, sprite_height, px, checked) ==
  LET h0 == [hw EXCEPT !.display_sync = FALSE]
      x == hw.registers[reg_x] % SCREEN_WIDTH
      y == hw.registers[reg_y] % SCREEN_HEIGHT
      sprite == [k \in 1..SPRITE_ROWS |->
                   IF k - 1 < sprite_height /\ SpriteRowAddr(hw, k - 1, checked) >= 0
                   THEN MemRead(hw.memory, SpriteRowAddr(hw, k - 1, checked))
                   ELSE 0]
  IN IF \E n \in 0..(sprite_height - 1) : SpriteRowAddr(hw, n, checked) < 0
     THEN Panic(h0)
     ELSE Emit(SetFlag(h0, Collision(px, sprite, x, y)),
               DrawSpriteEffect(sprite, x, y))

\* (0xd, reg_x, reg_y, sprite_height)
OpDraw(hw, reg_x, reg_y, sprite_height, px, checked) ==
  IF ~hw.display_sync
  THEN DrawRetry(hw)
  ELSE DrawWithCredit(hw, reg_x, reg_y, sprite_height, px, checked)

\* (0xe, _, 9, 0xe): input.keys & (1 << key) == 1
OpSkipKey(hw, x, input) ==
  Skip(hw, BitAnd(input.keys, 2 ^ (hw.registers[x] % 16)) = 1)

\* (0xe, _, 0xa, 1): input.keys & (1 << key) != 1
OpSkipNotKey(hw, x, input) ==
  Skip(hw, BitAnd(input.keys, 2 ^ (hw.registers[x] % 16)) # 1)

\* (0xf, _, 0, 7), (0xf, _, 1, 5), (0xf, _, 1, 8)
OpGetDelay(hw, x) == Done(SetReg(hw, x, hw.delay_timer))
OpSetDelay(hw, x) == Done([hw EXCEPT !.delay_timer = hw.registers[x]])
OpSetSound(hw, x) == Done([hw EXCEPT !.sound_timer = hw.registers[x]])

\* (0xf, _, 1, 0xe)
OpAddIndex(hw, x) == Done([hw EXCEPT !.i = (hw.i + hw.registers[x]) % U16])

\* (0xf, _, 0, 0xa): try_read fails while the input lock is write-held
\* (locked); nothing is done then.
OpWaitKey(hw, x, input, locked) ==
  IF locked THEN Done(hw)
  ELSE IF input.keys # 0
       THEN Done(SetReg(hw, x, LeadingZeros16(input.keys)))
       ELSE Done([hw EXCEPT !.pc = hw.pc - 2])

\* (0xf, _, 2, 9)
OpFontChar(hw, x) == Done([hw EXCEPT !.i = 5 * hw.registers[x]])

\* (a mutant of OpBcd: the middle digit is not reduced modulo 100)
OpBcd_Tens(hw, x) ==
  LET number == hw.registers[x]
      m1 == MemWrite(hw.memory, hw.i, number \div 100)
      m2 == MemWrite(m1, hw.i + 1, number \div 10)
      m3 == MemWrite(m2, hw.i + 2, number % 10)
  IN IF hw.i >= MEM_SIZE THEN Panic(hw)
     ELSE IF hw.i + 1 >= MEM_SIZE THEN Panic([hw EXCEPT !.memory = m1])
     ELSE IF hw.i + 2 >= MEM_SIZE THEN Panic([hw EXCEPT !.memory = m2])
     ELSE Done([hw EXCEPT !.memory = m3])

\* (0xf, _, 3, 3)
OpBcd(hw, x) ==
  LET number == hw.registers[x]
      m1 == MemWrite(hw.memory, hw.i, number \div 100)
      m2 == MemWrite(m1, hw.i + 1, (number % 100) \div 10)
      m3 == MemWrite(m2, hw.i + 2, number % 10)
  IN IF hw.i >= MEM_SIZE THEN Panic(hw)
     ELSE IF hw.i + 1 >= MEM_SIZE THEN Panic([hw EXCEPT !.memory = m1])
     ELSE IF hw.i + 2 >= MEM_SIZE THEN Panic([hw EXCEPT !.memory = m2])
     ELSE Done([hw EXCEPT !.memory = m3])

\* (a mutant of IndexAfterBlock: index advances in both generations)
IndexAfterBlock_Always(hw, x) == (hw.i + x + 1) % U16

\* self.i.wrapping_add(x as u16 + 1) in the COSMAC generation only
IndexAfterBlock(hw, x) ==
  IF hw.generation = "COSMAC" THEN (hw.i + x + 1) % U16 ELSE hw.i

\* (0xf, _, 5, 5)
OpStoreRegs(hw, x) ==
  LET last == IF hw.i + x >= MEM_SIZE THEN MEM_SIZE - 1 - hw.i ELSE x
      mem == [b \in (DOMAIN hw.memory) \cup {hw.i + k : k \in 0..last} |->
                IF b >= hw.i /\ b <= hw.i + last
                THEN hw.registers[b - hw.i] ELSE hw.memory[b]]
  IN IF hw.i + x >= MEM_SIZE
     THEN Panic([hw EXCEPT !.memory = mem])
     ELSE Done([hw EXCEPT !.memory = mem, !.i = IndexAfterBlock(hw, x)])

\* (0xf, _, 6, 5)
OpLoadRegs(hw, x) ==
  LET last == IF hw.i + x >= MEM_SIZE THEN MEM_SIZE - 1 - hw.i ELSE x
      regs == [k \in 0..(NUM_REGS - 1) |->
                 IF k <= last THEN MemRead(hw.memory, hw.i + k) ELSE hw.registers[k]]
  IN IF hw.i + x >= MEM_SIZE
     THEN Panic([hw EXCEPT !.registers = regs])
     ELSE Done([hw EXCEPT !.registers = regs, !.i = IndexAfterBlock(hw, x)])

\* _ => panic!()
OpUnknown_Skip(hw) == Done(hw)

OpUnknown(hw) == Panic(hw)

\* The four nibbles and the derived operands of an instruction word
OpOf(instr)  == instr \div 4096
XOf(instr)   == (instr \div 256) % 16
YOf(instr)   == (instr \div 16) % 16
NOf(instr)   == instr % 16
NnOf(instr)  == instr % 256
NnnOf(instr) == instr % 4096

\* Hardware::decode.  px is the frame buffer read under the read lock, input
\* the shared input state, nd the outcomes the environment decides: the
\* random byte, whether the input lock is write-held, and whether the build
\* checks integer overflow.
Decode(hw, instr, px, input, nd) ==
  LET op == OpOf(instr)
      x == XOf(instr)
      y == YOf(instr)
      n == NOf(instr)
      nn == NnOf(instr)
      nnn == NnnOf(instr)
  IN CASE op = 0 /\ x = 0 /\ y = 14 /\ n = 0  -> OpClearScreen(hw)
       [] op = 0 /\ x = 0 /\ y = 14 /\ n = 14 -> OpReturn(hw)
       [] op = 1                              -> OpJump(hw, nnn)
       [] op = 2                              -> OpCall(hw, nnn)
       [] op = 3                              -> OpSkipEqImm(hw, x, nn)
       [] op = 4                              -> OpSkipNeImm(hw, x, nn)
       [] op = 5 /\ n = 0                     -> OpSkipEqReg(hw, x, y)
       [] op = 6                              -> OpSetImm(hw, x, nn)
       [] op = 7                              -> OpAddImm(hw, x, nn)
       [] op = 8 /\ n = 0                     -> OpCopy(hw, x, y)
       [] op = 8 /\ n = 1                     -> OpOr(hw, x, y)
       [] op = 8 /\ n = 2                     -> OpAnd(hw, x, y)
       [] op = 8 /\ n = 3                     -> OpXor(hw, x, y)
       [] op = 8 /\ n = 4                     -> OpAddReg(hw, x, y)
       [] op = 8 /\ n = 5                     -> OpSubReg(hw, x, y)
       [] op = 8 /\ n = 6                     -> OpShiftRight(hw, x, y)
       [] op = 8 /\ n = 7                     -> OpSubRev(hw, x, y)
       [] op = 8 /\ n = 14                    -> OpShiftLeft(hw, x, y)
       [] op = 9 /\ n = 0                     -> OpSkipNeReg(hw, x, y)
       [] op = 10                             -> OpSetIndex(hw, nnn)
       [] op = 11                             -> OpJumpOffset(hw, x, nnn)
       [] op = 12                             -> OpRandom(hw, x, nn, nd.number)
       [] op = 13                             -> OpDraw(hw, x, y, n, px, nd.checked)
       [] op = 14 /\ y = 9 /\ n = 14          -> OpSkipKey(hw, x, input)
       [] op = 14 /\ y = 10 /\ n = 1          -> OpSkipNotKey(hw, x, input)
       [] op = 15 /\ y = 0 /\ n = 7           -> OpGetDelay(hw, x)
       [] op = 15 /\ y = 1 /\ n = 5           -> OpSetDelay(hw, x)
       [] op = 15 /\ y = 1 /\ n = 8           -> OpSetSound(hw, x)
       [] op = 15 /\ y = 1 /\ n = 14          -> OpAddIndex(hw, x)
       [] op = 15 /\ y = 0 /\ n = 10          -> OpWaitKey(hw, x, input, nd.locked)
       [] op = 15 /\ y = 2 /\ n = 9           -> OpFontChar(hw, x)
       [] op = 15 /\ y = 3 /\ n = 3           -> OpBcd(hw, x)
       [] op = 15 /\ y = 5 /\ n = 5           -> OpStoreRegs(hw, x)
       [] op = 15 /\ y = 6 /\ n = 5           -> OpLoadRegs(hw, x)
       [] OTHER                               -> OpUnknown(hw)

\* tick_cpu_clock with wrapping instead of saturating subtraction
TickCpuClock_Wrapping(hw) ==
  [hw EXCEPT !.delay_timer = (hw.delay_timer + U8 - 1) % U8,
             !.sound_timer = (hw.sound_timer + U8 - 1) % U8]

\* Hardware::tick_cpu_clock
TickCpuClock(hw) ==
  [hw EXCEPT !.delay_timer = IF hw.delay_timer > 0 THEN hw.delay_timer - 1 ELSE 0,
             !.sound_timer = IF hw.sound_timer > 0 THEN hw.sound_timer - 1 ELSE 0]

\* ------------------------------------------------------------------------
\* Execution scheduler (src/chip8.rs, Chip8Runner and Chip8RunnerKind)
\* ------------------------------------------------------------------------
\* A new Runner that starts with a budget of one cycle
RunnerNew_OneCycle(debug) ==
  [ kind          |-> IF debug THEN "DebugRunner" ELSE "NormalRunner",
    cycles_to_run |-> 1,
    cycles        |-> 0 ]

\* Chip8Runner::new; cycles_to_run is meaningful for the DebugRunner only
RunnerNew(debug) ==
  [ kind          |-> IF debug THEN "DebugRunner" ELSE "NormalRunner",
    cycles_to_run |-> 0,
    cycles        |-> 0 ]

IsDebug(runner) == runner.kind = "DebugRunner"

\* can_run that permits a cycle whatever the budget
CanRun_Always(runner) == TRUE

CanRun(runner) ==
  IF runner.kind = "DebugRunner" THEN runner.cycles_to_run > 0 ELSE TRUE

Advance(runner) ==
  [runner EXCEPT !.cycles_to_run = IF runner.kind = "DebugRunner" THEN @ - 1 ELSE @,
                 !.cycles = @ + 1]

HardwareClockTick(runner) == runner.cycles % CYCLES_PER_TICK = 0

\* ------------------------------------------------------------------------
\* VM thread (src/chip8.rs, Chip8)
\* ------------------------------------------------------------------------
\* Chip8::new: a VM record is the Chip8 value together with the receiving
\* end of its control channel (event_bus), the thread's state and its
\* position in the loop of Chip8::run.
Chip8New(color, generation, debug, program, fps) ==
  [ hardware  |-> [HardwareDefault EXCEPT
                     !.generation = generation,
                     !.memory = LoadProgram(HardwareDefault.memory, program)],
    runner    |-> RunnerNew(debug),
    color     |-> color,
    fps       |-> fps,
    event_bus |-> << >>,
    state     |-> "running",
    at        |-> "handle_event" ]

\* Chip8::run_hardware_cycle
RunHardwareCycle(hw, px, input, nd) ==
  LET f == Fetch(hw)
  IN IF f.panic THEN Panic(hw) ELSE Decode(f.hw, f.instr, px, input, nd)

\* A snapshot without the instruction word
DebugStateEffect_NoWord(hw) ==
  [ type |-> "DebugEmulatorState",
    pc   |-> hw.pc,
    i    |-> hw.i,
    reg  |-> hw.registers,
    op   |-> 0 ]

\* Chip8::send_debug_state: the word at pc is read without a bounds check
DebugStateEffect(hw) ==
  [ type |-> "DebugEmulatorState",
    pc   |-> hw.pc,
    i    |-> hw.i,
    reg  |-> hw.registers,
    op   |-> MemRead(hw.memory, hw.pc) * 256 + MemRead(hw.memory, hw.pc + 1) ]

SendDebugStatePanics(hw) == hw.pc + 1 >= MEM_SIZE

\* ChangeColor: every pixel that is not [0,0,0,0] takes the new colour
Recolor(px, c) ==
  IF c = BLACK THEN << >> ELSE [p \in DOMAIN px |-> c]

\* try_recv on a channel that holds the newest event instead of the oldest
TryRecv_Newest(bus) ==
  [event |-> bus[Len(bus)], rest |-> SubSeq(bus, 1, Len(bus) - 1)]

\* Receiver::try_recv on a channel that is not empty: the oldest event,
\* and what stays queued
TryRecv(bus) == [event |-> Head(bus), rest |-> Tail(bus)]

\* Chip8::handle_event: at most one control event is taken from the channel
HandleEvent(vm, px) ==
  IF vm.event_bus = << >>
  THEN [vm |-> vm, px |-> px, quit |-> FALSE]
  ELSE
    LET event == TryRecv(vm.event_bus).event
        v0 == [vm EXCEPT !.event_bus = TryRecv(vm.event_bus).rest]
    IN CASE event.type = "ChangeColor" ->
              [vm |-> [v0 EXCEPT !.color = event.color],
               px |-> Recolor(px, event.color), quit |-> FALSE]
         [] event.type = "NextDebugCycle" ->
              [vm |-> IF IsDebug(v0.runner)
                      THEN [v0 EXCEPT !.runner.cycles_to_run = @ + event.count]
                      ELSE v0,
               px |-> px, quit |-> FALSE]
         [] event.type = "QuitEmulator" ->
              [vm |-> v0, px |-> px, quit |-> TRUE]
         [] event.type = "DisplaySynced" ->
              [vm |-> [v0 EXCEPT !.hardware.display_sync = TRUE],
               px |-> px, quit |-> FALSE]
         [] event.type = "FpsChange" ->
              [vm |-> [v0 EXCEPT !.fps = event.fps], px |-> px, quit |-> FALSE]
         [] event.type = "SetDebug" ->
              [vm |-> IF event.debug /\ IsDebug(v0.runner)
                      THEN v0
                      ELSE [v0 EXCEPT !.runner = RunnerNew(event.debug)],
               px |-> px, quit |-> FALSE]

\* The body of the loop of Chip8::run after handle_event.  The outcome is
\* the VM and the effects it sent on the display bus.
RunIteration(vm, px, input, nd) ==
  IF ~CanRun(vm.runner)
  THEN [vm |-> vm, out |-> << >>]
  ELSE
    LET runner == Advance(vm.runner)
        c == RunHardwareCycle(vm.hardware, px, input, nd)
        hw == IF HardwareClockTick(runner) THEN TickCpuClock(c.hw) ELSE c.hw
    IN IF c.panic
       THEN [vm |-> [vm EXCEPT !.runner = runner, !.hardware = c.hw,
                               !.state = "panicked"],
             out |-> c.out]
       ELSE IF IsDebug(runner) /\ SendDebugStatePanics(hw)
       THEN [vm |-> [vm EXCEPT !.runner = runner, !.hardware = hw,
                               !.state = "panicked"],
             out |-> c.out]
       ELSE [vm |-> [vm EXCEPT !.runner = runner, !.hardware = hw],
             out |-> IF IsDebug(runner)
                     THEN c.out \o << DebugStateEffect(hw) >>
                     ELSE c.out]

\* ------------------------------------------------------------------------
\* Application event loop (src/app.rs) and frame buffer (src/chip8/screen.rs)
\* ------------------------------------------------------------------------
LIGHT_GRAY == 1
DEFAULT_FPS == 60

\* (a mutant of SetRow: the columns wrap around the right edge)
SetRow_Wrap(px, x, y, row, color) ==
  IF row = 0 THEN px
  ELSE
    LET hit == {<<(x + c) % SCREEN_WIDTH, y>> : c \in {d \in 0..7 : Bit(row, 7 - d) = 1}}
        keep == (DOMAIN px) \ hit
        new == IF color # BLACK THEN hit \ (DOMAIN px) ELSE {}
    IN [p \in keep \cup new |-> IF p \in keep THEN px[p] ELSE color]

\* set_row: the pixels x..x+8 of row y whose sprite bit is set are toggled:
\* [0,0,0,0] takes the colour, anything else becomes [0,0,0,0].  The row is
\* inside the frame (SetRowPanics says when pixel_row_mut is not).
SetRow(px, x, y, row, color) ==
  IF row = 0 THEN px
  ELSE
    LET hit == {<<x + c, y>> : c \in {d \in 0..7 : x + d < SCREEN_WIDTH /\ Bit(row, 7 - d) = 1}}
        keep == (DOMAIN px) \ hit
        new == IF color # BLACK THEN hit \ (DOMAIN px) ELSE {}
    IN [p \in keep \cup new |-> IF p \in keep THEN px[p] ELSE color]

\* pixel_row_mut indexes the frame without a bounds check
SetRowPanics(y, row) == row # 0 /\ y >= SCREEN_HEIGHT

\* AppEvents::DrawSprite: set_row for each of the 16 rows
ApplySprite(px, sprite, x, y, color) ==
  LET f[k \in 0..SPRITE_ROWS] ==
        IF k = 0 THEN px ELSE SetRow(f[k - 1], x, y + k - 1, sprite[k], color)
  IN f[SPRITE_ROWS]

ApplySpritePanics(sprite, y) ==
  \E k \in 1..SPRITE_ROWS : SetRowPanics(y + k - 1, sprite[k])

\* An effect on the display bus, with the VM thread that sent it (0: the
\* application itself).  The sender is bookkeeping of the model: no handler
\* reads it, the DrawSprite handler copies it into the acknowledgment ("of")
\* where no handler reads it either.
Tagged(e, v) ==
  [f \in (DOMAIN e) \cup {"vm"} |-> IF f = "vm" THEN v ELSE e[f]]

TagAll(out, v) == [k \in 1..Len(out) |-> Tagged(out[k], v)]

\* The event itself, without the bookkeeping
Untagged(e) == [f \in (DOMAIN e) \ {"vm"} |-> e[f]]

\* ------------------------------------------------------------------------
\* Peer stream (src/app/emulator_view.rs, src/display_bus.rs)
\* ------------------------------------------------------------------------
\* An unsigned integer in k bytes, least and most significant byte first
ShiftBytes(n, j) ==
  LET f[i \in 0..j] == IF i = 0 THEN n ELSE f[i - 1] \div 256
  IN f[j]

LE(n, k) == [j \in 1..k |-> ShiftBytes(n, j - 1) % 256]
BE(n, k) == [j \in 1..k |-> ShiftBytes(n, k - j) % 256]

FromBE(b) ==
  LET f[j \in 0..Len(b)] == IF j = 0 THEN 0 ELSE f[j - 1] * 256 + b[j]
  IN f[Len(b)]

FromLE(b) == FromBE([j \in 1..Len(b) |-> b[Len(b) + 1 - j]])

\* bincode of a string or path: the length as u64, then the bytes
Str(b) == LE(Len(b), 8) \o b

\* The bytes of a host address as the user typed it
IpBytes(ip) ==
  IF ip = "Ip" THEN << 49, 50, 55, 46, 48, 46, 48, 46, 49 >>   \* 127.0.0.1
  ELSE << 63 >>                                                \* ?

\* bincode::serialize of EmulatorEvents: the variant index as u32, then the
\* fields (Color32 as its four bytes, usize as u64)
SerializeControl(c) ==
  CASE c.type = "ChangeColor"    -> LE(0, 4) \o LE(c.color, 4)
    [] c.type = "FpsChange"      -> LE(1, 4) \o LE(c.fps, 4)
    [] c.type = "NextDebugCycle" -> LE(2, 4) \o LE(c.count, 8)
    [] c.type = "SetDebug"       -> LE(3, 4) \o << IF c.debug THEN 1 ELSE 0 >>
    [] c.type = "QuitEmulator"   -> LE(4, 4)
    [] c.type = "DisplaySynced"  -> LE(5, 4)

\* bincode::serialize of EmulatorKind
SerializeKind(e) ==
  CASE e.kind = "Single" -> LE(0, 4)
    [] e.kind = "Server" ->
         LE(1, 4) \o (CASE e.ip = "Empty" -> LE(0, 4)
                        [] e.ip = "NotFound" -> LE(1, 4)
                        [] OTHER -> LE(2, 4) \o Str(IpBytes(e.ip)))
    [] e.kind = "Client" -> LE(2, 4) \o Str(IpBytes(e.ip))

\* bincode::serialize of AppEvents: the variant index as u32, then the
\* fields in declaration order, integers little-endian in their width,
\* arrays without a length.  The program of a spawn request stands for the
\* file its path names, the bytes of the one for the bytes of the other.
Serialize(e) ==
  CASE e.type = "Nop" -> LE(0, 4)
    [] e.type = "EmulatorEvent" -> LE(1, 4) \o SerializeControl(e.event)
    [] e.type = "ClearScreen" -> LE(2, 4)
    [] e.type = "DrawSprite" -> LE(3, 4) \o e.sprite \o << e.x, e.y >>
    [] e.type = "SpawnEmulator" ->
         LE(4, 4) \o SerializeKind(e)
           \o LE(IF e.generation = "COSMAC" THEN 0 ELSE 1, 4)
           \o << IF e.debugger THEN 1 ELSE 0 >>
           \o << 1 >> \o Str(e.program)
           \o LE(e.fps, 4)
    [] e.type = "DebugEmulatorState" ->
         LE(5, 4) \o LE(e.pc, 2) \o LE(e.i, 2)
           \o [j \in 1..NUM_REGS |-> e.reg[j - 1]] \o LE(e.op, 2)
    [] e.type = "ClientMessage" -> LE(6, 4) \o LE(0, 4) \o LE(e.keys, 2)

\* The length prefix of a message: bytes.len().to_be_bytes(), a usize of
\* eight bytes on the 64-bit targets the program is built for
USIZE_BYTES == 8

\* A frame whose length prefix counts itself
Frame_CountsPrefix(payload) == BE(Len(payload) + USIZE_BYTES, USIZE_BYTES) \o payload

\* buffer = len.to_be_bytes() ++ bytes
Frame(payload) == BE(Len(payload), USIZE_BYTES) \o payload

\* send_over_tcp that skips the clear-screen effect
SendOverTcp_NoClear(tcp, e) ==
  IF e.type = "ClearScreen" THEN tcp ELSE tcp \o Frame(Serialize(e))

\* send_over_tcp: the frame of the event is written to the stream (tcp is
\* what has been written so far)
SendOverTcp(tcp, e) == tcp \o Frame(Serialize(e))

\* EmulatorView::send: Single and Host hold the sender of the control
\* channel of their VM; a send to a channel whose receiver is gone (the VM
\* thread ended) is an error the caller prints.  Off and Client have no
\* channel.
EmulatorViewSend(md, vs, event) ==
  IF md.kind \in {"Single", "Host"} /\ vs[md.vm].state = "running"
  THEN [vs EXCEPT ![md.vm].event_bus = Append(@, event)]
  ELSE vs

\* An address the spawn request cannot use: HostIp::Empty, HostIp::NotFound,
\* or a string IpAddr::from_str rejects.  The request ends with
\* Err(NoServerIp) or Err(IpConvertionError), which the event loop prints.
AddressError(e) == e.kind \in {"Server", "Client"} /\ e.ip # "Ip"

\* to_host and to_client: TcpListener::bind(ADDR).unwrap() and
\* TcpStream::connect(ADDR).unwrap() end the thread that called them, the
\* event loop, when the socket operation fails
ConstructorPanics(e, net_ok) == e.kind \in {"Server", "Client"} /\ ~net_ok

\* spawn_emulator.  w is the application's world before the request, e the
\* SpawnEmulator event, net_ok whether the socket operations of a Host or
\* Client succeed.
SpawnEmulator(w, e, net_ok) ==
  LET vs1 == EmulatorViewSend(w.mode, w.vms, [type |-> "QuitEmulator"])
      w1 == [w EXCEPT !.vms = vs1,
                      !.app_events = Append(@, Tagged(ClearScreenEffect, 0))]
      id == Len(w.vms) + 1
      vm == Chip8New(w.gui.color, e.generation, e.debugger, e.program, e.fps)
  IN CASE e.kind = "Single" ->
            [w1 EXCEPT !.vms = Append(vs1, vm),
                       !.mode = [kind |-> "Single", vm |-> id, tcp |-> << >>]]
       [] e.kind = "Server" ->
            IF AddressError(e) THEN w1
            ELSE IF ConstructorPanics(e, net_ok)
            THEN [w1 EXCEPT !.app_state = "crashed"]
            ELSE [w1 EXCEPT !.vms = Append(vs1, vm),
                            !.mode = [kind |-> "Host", vm |-> id, tcp |-> << >>]]
       [] e.kind = "Client" ->
            IF AddressError(e) THEN w1
            ELSE IF ConstructorPanics(e, net_ok)
            THEN [w1 EXCEPT !.app_state = "crashed"]
            ELSE [w1 EXCEPT !.mode = [kind |-> "Client", vm |-> 0, tcp |-> << >>]]

\* Event::UserEvent(app_event), after the forwarding of a host
HandleLocally(w, e, net_ok) ==
  CASE e.type = "ClearScreen" ->
         [w EXCEPT !.pixels = << >>]
    [] e.type = "DrawSprite" ->
         IF ApplySpritePanics(e.sprite, e.y)
         THEN [w EXCEPT !.app_state = "crashed"]
         ELSE [w EXCEPT
                 !.pixels = ApplySprite(w.pixels, e.sprite, e.x, e.y, w.gui.color),
                 !.vms = EmulatorViewSend(w.mode, w.vms,
                           [type |-> "DisplaySynced", of |-> e.vm])]
    [] e.type = "SpawnEmulator" ->
         SpawnEmulator(w, e, net_ok)
    [] e.type = "EmulatorEvent" ->
         [w EXCEPT !.vms = EmulatorViewSend(w.mode, w.vms, e.event)]
    [] e.type = "DebugEmulatorState" ->
         [w EXCEPT !.gui.debugger = TRUE]
    [] e.type = "ClientMessage" ->
         IF w.mode.kind = "Host"
         THEN [w EXCEPT !.input.client = e.keys]
         ELSE w
    [] OTHER -> w

\* Event::UserEvent(app_event): a host first writes the event to its peer
\* stream, whatever the event is, then every role handles it
HandleUserEvent(w, e, net_ok) ==
  HandleLocally(
    IF w.mode.kind = "Host"
    THEN [w EXCEPT !.mode.tcp = SendOverTcp(@, Untagged(e))]
    ELSE w,
    e, net_ok)

\* ------------------------------------------------------------------------
\* State
\* ------------------------------------------------------------------------
VARIABLES
  vms,         \* the VM threads spawned so far, in spawn order
  mode,        \* emulator_view.mode: its kind, the VM whose sender it holds
               \* and what it has written to its peer stream
  app_events,  \* the user events queued on the application's event loop
  pixels,      \* the shared frame buffer
  input,       \* the shared InputState
  gui,         \* framework.gui
  app_state,   \* "running", or "crashed" once the event loop thread panicked
  ui           \* how many requests the user has issued (bounds the model)

vars == << vms, mode, app_events, pixels, input, gui, app_state, ui >>

World ==
  [ vms |-> vms, mode |-> mode, app_events |-> app_events, pixels |-> pixels,
    input |-> input, gui |-> gui, app_state |-> app_state ]

SetWorld(w) ==
  /\ vms' = w.vms
  /\ mode' = w.mode
  /\ app_events' = w.app_events
  /\ pixels' = w.pixels
  /\ input' = w.input
  /\ gui' = w.gui
  /\ app_state' = w.app_state

\* App::init: no emulator yet
World0 ==
  [ vms        |-> << >>,
    mode       |-> [kind |-> "OffView", vm |-> 0, tcp |-> << >>],
    app_events |-> << >>,
    pixels     |-> << >>,
    input      |-> [keys |-> 0, client |-> 0],
    gui        |-> [color |-> LIGHT_GRAY, start_debugger |-> FALSE,
                    debugger |-> FALSE, fps |-> DEFAULT_FPS],
    app_state  |-> "running" ]

\* ------------------------------------------------------------------------
\* Bounds and inputs of the model
\* ------------------------------------------------------------------------
MaxCycles == 66      \* cycles a VM executes (Chip8Runner.cycles is a u32)
MaxSystemCycles == 3 \* the same, where several VMs run beside the user
MaxSpawns == 2       \* "Create Emulator" requests

RandomBytes == {0, 165, 255}

\* What the environment decides for the next cycle of a VM: the byte
\* fastrand returns (read by CXNN only), whether the input lock is
\* write-held (FX0A only) and whether the build checks integer overflow
\* (DXYN only).  A choice the next instruction does not read is not
\* enumerated.
Environment(hw) ==
  LET w == MemRead(hw.memory, hw.pc) * 256 + MemRead(hw.memory, hw.pc + 1)
  IN [ number  : IF OpOf(w) = 12 THEN RandomBytes ELSE {0},
       locked  : IF OpOf(w) = 15 /\ NnOf(w) = 10 THEN BOOLEAN ELSE {FALSE},
       checked : IF OpOf(w) = 13 THEN BOOLEAN ELSE {TRUE} ]

\* The instruction word of the nibbles (op, x, y, n), and the bytes of a
\* program given as a sequence of words
Ins(op, x, y, n) == op * 4096 + x * 256 + y * 16 + n
Bytes(words) ==
  [k \in 1..(2 * Len(words)) |->
     IF k % 2 = 1 THEN words[(k + 1) \div 2] \div 256 ELSE words[k \div 2] % 256]

\* ------------------------------------------------------------------------
\* Actions
\* ------------------------------------------------------------------------
Running(v) == v \in DOMAIN vms /\ vms[v].state = "running"

\* The first half of an iteration without the quit test
VmHandleEvent_NoQuit(v) ==
  /\ app_state = "running"
  /\ Running(v)
  /\ vms[v].at = "handle_event"
  /\ LET r == HandleEvent(vms[v], pixels)
     IN /\ vms' = [vms EXCEPT ![v] = [r.vm EXCEPT !.at = "run"]]
        /\ pixels' = r.px
  /\ UNCHANGED << mode, app_events, input, gui, app_state, ui >>

\* Chip8::run, first half of an iteration: handle_event and the quit test
VmHandleEvent(v) ==
  /\ app_state = "running"
  /\ Running(v)
  /\ vms[v].at = "handle_event"
  /\ LET r == HandleEvent(vms[v], pixels)
     IN /\ vms' = [vms EXCEPT ![v] =
                     IF r.quit THEN [r.vm EXCEPT !.state = "quit"]
                     ELSE [r.vm EXCEPT !.at = "run"]]
        /\ pixels' = r.px
  /\ UNCHANGED << mode, app_events, input, gui, app_state, ui >>

\* Chip8::run, second half of an iteration: the cycle the runner permits,
\* for a VM that has executed fewer than max cycles
VmRunWithin(v, max) ==
  /\ app_state = "running"
  /\ Running(v)
  /\ vms[v].at = "run"
  /\ CanRun(vms[v].runner) => vms[v].runner.cycles < max
  /\ \E nd \in Environment(vms[v].hardware) :
       LET r == RunIteration(vms[v], pixels, input, nd)
       IN /\ vms' = [vms EXCEPT ![v] = [r.vm EXCEPT !.at = "handle_event"]]
          /\ app_events' = app_events \o TagAll(r.out, v)
  /\ UNCHANGED << mode, pixels, input, gui, app_state, ui >>

VmRun(v) == VmRunWithin(v, MaxCycles)

\* The event loop takes the next user event
AppUserEvent ==
  /\ app_state = "running"
  /\ app_events # << >>
  /\ \E net_ok \in BOOLEAN :
       SetWorld(HandleUserEvent([World EXCEPT !.app_events = Tail(app_events)],
                                Head(app_events), net_ok))
  /\ UNCHANGED ui

\* ------------------------------------------------------------------------
\* Programs the instruction-level specification loads
\* ------------------------------------------------------------------------
SampleRegs == {0, 1, 15}
SampleBytes == {0, 1, 4, 127, 128, 255}

\* One word of every (op, x, y, n) with x one of two nibbles, run as a
\* one-word program
DecodePrograms ==
  { << Ins(op, x, y, n) >> : op \in 0..15, x \in {0, 15}, y \in 0..15, n \in 0..15 }

\* reg[x] = a; reg[y] = b; 8XYk
AluPrograms ==
  { << Ins(6, x, a \div 16, a % 16), Ins(6, y, b \div 16, b % 16), Ins(8, x, y, k) >> :
      x \in SampleRegs, y \in SampleRegs, a \in SampleBytes, b \in SampleBytes,
      k \in {4, 5, 6, 7, 14} }

\* A chain of d nested subroutines: the main program calls the first and
\* then loops at 0x202; subroutine k (at 0x200 + 4k) calls subroutine k + 1
\* and returns; the last one only returns.
NestProgram(d) ==
  [j \in 1..(2 * d + 2) |->
     IF j = 1 THEN Ins(2, 2, 0, 4)
     ELSE IF j = 2 THEN Ins(1, 2, 0, 2)
     ELSE IF j % 2 = 1 /\ j < 2 * d + 1
          THEN 8192 + PROGRAM_START + 4 * ((j - 1) \div 2 + 1)
          ELSE 238]

\* Calls, returns and jumps
ControlPrograms ==
  { << 8704 >>,                          \* 2200: call itself for ever
    << 238 >>,                           \* 00EE with an empty stack
    << 8708, 4610, 238 >>,               \* 2204 1202 00EE
    NestProgram(2),
    NestProgram(STACK_SIZE),
    << 224, 4608 >>,                     \* 00E0 1200
    << 4096 >>,                          \* 1000: jump into the font
    << 8192 >>,                          \* 2000: call into the font
    << 8190 >>,                          \* 1FFE
    << 8191 >>,                          \* 1FFF
    << 24831, 49151 >>,                  \* 60FF BFFF
    << 4606 >>, << 4607 >>               \* 11FE 11FF
  }

\* reg0 = a; reg1 = b; index = m; draw n rows; the same again -- and
\* draw the glyph row at memory[0]; clear the screen; draw it again
DrawPrograms ==
  { << Ins(6, 0, a \div 16, a % 16), Ins(6, 1, b \div 16, b % 16),
       Ins(10, m \div 256, (m \div 16) % 16, m % 16), Ins(13, 0, 1, n),
       Ins(6, 0, a2 \div 16, a2 % 16), Ins(13, 0, 1, n2) >> :
      a \in {0, 60}, b \in {0, 30}, m \in {0, 4094}, n \in {1, 2, 5},
      a2 \in {2, 61, 124}, n2 \in {1, 15} }
  \cup { << Ins(13, 0, 1, 1), Ins(0, 0, 14, 0), Ins(13, 0, 1, 1) >> }

\* index = 0x123; both timers = 7; reg[x] = a; reg[15] = c; 7XNN
AddImmPrograms ==
  { << Ins(10, 1, 2, 3), Ins(6, 1, 0, 7), Ins(15, 1, 1, 5), Ins(15, 1, 1, 8),
       Ins(6, x, a \div 16, a % 16), Ins(6, 15, 0, c),
       Ins(7, x, nn \div 16, nn % 16) >> :
      x \in {0, 15}, a \in {0, 127, 255}, c \in {0, 1}, nn \in {0, 1, 255} }

\* reg0 = a; reg1 = 2; reg15 = 3; index = m; FX55; FX65 -- and
\* reg[x] = a for every byte a; index = m; FX33
MemPrograms ==
  { << Ins(6, 0, a \div 16, a % 16), Ins(6, 1, 0, 2), Ins(6, 15, 0, 3),
       Ins(10, m \div 256, (m \div 16) % 16, m % 16),
       Ins(15, x, 5, 5), Ins(15, x, 6, 5) >> :
      a \in {1, 255}, m \in {0, 768, 4094, 4095}, x \in SampleRegs }
  \cup { << Ins(6, x, a \div 16, a % 16),
            Ins(10, m \div 256, (m \div 16) % 16, m % 16), Ins(15, x, 3, 3) >> :
           a \in 0..(U8 - 1), m \in {768, 4093, 4094}, x \in {0, 15} }

CpuPrograms == AluPrograms \cup ControlPrograms \cup AddImmPrograms \cup MemPrograms

\* ------------------------------------------------------------------------
\* Specifications
\* ------------------------------------------------------------------------
SpawnEvent(kind, ip, generation, debugger, program, fps) ==
  [ type |-> "SpawnEmulator", kind |-> kind, ip |-> ip, generation |-> generation,
    debugger |-> debugger, program |-> program, fps |-> fps, vm |-> 0 ]

\* The state right after a Single emulator was spawned with one of the
\* programs, in either generation
InitWith(programs) ==
  \E program \in programs, generation \in Generations :
     LET w == SpawnEmulator(World0,
                SpawnEvent("Single", "Ip", generation, FALSE, Bytes(program),
                           DEFAULT_FPS), TRUE)
     IN /\ vms = w.vms
        /\ mode = w.mode
        /\ app_events = w.app_events
        /\ pixels = w.pixels
        /\ input = w.input
        /\ gui = w.gui
        /\ app_state = w.app_state
        /\ ui = [spawns |-> 1]

\* The instruction-level specifications: the VM thread of a Single emulator
\* and the event loop run one of the programs.
InitCpu == InitWith(CpuPrograms)
InitDecode == InitWith(DecodePrograms)
InitDraw == InitWith(DrawPrograms)

NextCpu ==
  \/ \E v \in DOMAIN vms : VmHandleEvent(v)
  \/ \E v \in DOMAIN vms : VmRun(v)
  \/ AppUserEvent

SpecCpu == InitCpu /\ [][NextCpu]_vars
SpecDecode == InitDecode /\ [][NextCpu]_vars
SpecDraw == InitDraw /\ [][NextCpu]_vars

\* The programs the user starts in the system specification: two draws of
\* the glyph row at memory[0] at the origin
SystemPrograms == { << Ins(13, 0, 0, 1), Ins(13, 0, 0, 1) >> }

SpawnKinds == {"Single", "Server", "Client"}

\* Gui::ui, "Create Emulator"
UiSpawn ==
  /\ app_state = "running"
  /\ ui.spawns < MaxSpawns
  /\ \E kind \in SpawnKinds, program \in SystemPrograms :
       app_events' = Append(app_events,
                        SpawnEvent(kind, "Ip", "Super", gui.start_debugger,
                                   Bytes(program), gui.fps))
  /\ ui' = [ui EXCEPT !.spawns = @ + 1]
  /\ UNCHANGED << vms, mode, pixels, input, gui, app_state >>

\* The whole program: the user, the event loop and the VM threads
Init ==
  /\ vms = World0.vms
  /\ mode = World0.mode
  /\ app_events = World0.app_events
  /\ pixels = World0.pixels
  /\ input = World0.input
  /\ gui = World0.gui
  /\ app_state = World0.app_state
  /\ ui = [spawns |-> 0]

Next ==
  \/ UiSpawn
  \/ AppUserEvent
  \/ \E v \in DOMAIN vms : VmHandleEvent(v)
  \/ \E v \in DOMAIN vms : VmRunWithin(v, MaxSystemCycles)

Spec == Init /\ [][Next]_vars

\* ------------------------------------------------------------------------
\* Vocabulary of the properties
\* ------------------------------------------------------------------------
\* The word the next fetch of this hardware reads
WordAtPc(hw) == MemRead(hw.memory, hw.pc) * 256 + MemRead(hw.memory, hw.pc + 1)

\* The word the last fetch read (pc was advanced past it)
WordBeforePc(hw) ==
  IF hw.pc < 2 THEN 0
  ELSE MemRead(hw.memory, hw.pc - 2) * 256 + MemRead(hw.memory, hw.pc - 1)

\* This step is VM v executing one hardware cycle
CycleStep(v) ==
  /\ v \in DOMAIN vms
  /\ vms[v].state = "running"
  /\ vms[v].at = "run"
  /\ vms'[v].runner.cycles = vms[v].runner.cycles + 1

\* The effects this step appended to the display bus
NewEffects == SubSeq(app_events', Len(app_events) + 1, Len(app_events'))

\* ------------------------------------------------------------------------
\* C1: a draw executed while display_sync is false leaves pc at the draw
\* instruction, emits no clear or draw effect, and leaves registers, index,
\* memory, stack and display_sync as they were.
\* ------------------------------------------------------------------------
C1_DrawWithoutCreditIsRetried ==
  [][\A v \in DOMAIN vms :
       LET hw == vms[v].hardware
           hw2 == vms'[v].hardware
       IN (CycleStep(v) /\ hw.pc + 1 < MEM_SIZE /\ OpOf(WordAtPc(hw)) = 13
           /\ ~hw.display_sync)
          => /\ vms'[v].state = "running"
             /\ hw2.pc = hw.pc
             /\ hw2.registers = hw.registers
             /\ hw2.i = hw.i
             /\ hw2.memory = hw.memory
             /\ hw2.stack = hw.stack
             /\ hw2.stack_frame = hw.stack_frame
             /\ hw2.display_sync = FALSE
             /\ \A k \in 1..Len(NewEffects) :
                   NewEffects[k].type \notin {"ClearScreen", "DrawSprite"}]_vars

\* A second draw was fetched and retried: the VM of a draw program is at
\* its second draw, without credit, after more cycles than lead to it
C1_Witness ==
  \E v \in DOMAIN vms :
     /\ vms[v].state = "running"
     /\ ~vms[v].hardware.display_sync
     /\ OpOf(WordAtPc(vms[v].hardware)) = 13
     /\ vms[v].hardware.pc = PROGRAM_START + 10
     /\ vms[v].runner.cycles > 6

\* ------------------------------------------------------------------------
\* The draw with credit (C4)
\* ------------------------------------------------------------------------
\* The draw-sprite effects among the effects this step sent
NewDraws == SelectSeq(NewEffects, LAMBDA e : e.type = "DrawSprite")

\* The flag a draw of the n rows at memory[i..] at the origin of the
\* registers X and Y has to report on the frame buffer as it is
DrawFlagExpected(hw, w, px) ==
  LET x == hw.registers[XOf(w)] % SCREEN_WIDTH
      y == hw.registers[YOf(w)] % SCREEN_HEIGHT
  IN IF \E r \in 0..(NOf(w) - 1), c \in 0..7 :
          /\ Bit(MemRead(hw.memory, hw.i + r), 7 - c) = 1
          /\ x + c < SCREEN_WIDTH
          /\ y + r < SCREEN_HEIGHT
          /\ Lit(px, x + c, y + r)
     THEN 1 ELSE 0

\* The one effect of the draw: n rows of memory[i..i + n], then zeros
DrawEffectExpected(hw, w) ==
  DrawSpriteEffect([k \in 1..SPRITE_ROWS |->
                      IF k - 1 < NOf(w) THEN MemRead(hw.memory, hw.i + k - 1)
                      ELSE 0],
                   hw.registers[XOf(w)] % SCREEN_WIDTH,
                   hw.registers[YOf(w)] % SCREEN_HEIGHT)

\* VM v executes a draw with credit in this step
DrawStep(v) ==
  /\ CycleStep(v)
  /\ vms[v].hardware.pc + 1 < MEM_SIZE
  /\ OpOf(WordAtPc(vms[v].hardware)) = 13
  /\ vms[v].hardware.display_sync

\* The draw sets the flag from the frame buffer and sends its one effect
DrawDone(v) ==
  LET hw == vms[v].hardware
      w == WordAtPc(hw)
  IN /\ vms'[v].state = "running"
     /\ vms'[v].hardware.registers[NUM_REGS - 1] = DrawFlagExpected(hw, w, pixels)
     /\ Len(NewDraws) = 1
     /\ Untagged(NewDraws[1]) = DrawEffectExpected(hw, w)

InTable(w) ==
  LET op == w \div 4096
      lo == w % 256
      n  == w % 16
  IN \/ w \in {224, 238}
     \/ op \in {1, 2, 3, 4, 6, 7, 10, 11, 12, 13}
     \/ op \in {5, 9} /\ n = 0
     \/ op = 8 /\ n \in (0..7) \cup {14}
     \/ op = 14 /\ lo \in {158, 161}
     \/ op = 15 /\ lo \in {7, 10, 21, 24, 30, 41, 51, 85, 101}

\* C5: executing an instruction word that matches no row of the opcode
\* table puts the VM into the fault state, and a VM in the fault state
\* executes no further cycle: the word is never skipped as a no-op.
C5_UnknownWordFaults ==
  [][\A v \in DOMAIN vms :
       /\ (CycleStep(v) /\ vms[v].hardware.pc + 1 < MEM_SIZE
           /\ ~InTable(WordAtPc(vms[v].hardware)))
          => /\ vms'[v].state = "panicked"
             /\ NewEffects = << >>
       /\ vms[v].state = "panicked"
          => /\ v \in DOMAIN vms'
             /\ vms'[v].state = "panicked"
             /\ vms'[v].hardware = vms[v].hardware
             /\ vms'[v].runner = vms[v].runner]_vars

\* The first word of the program matched no row and the VM is in the fault
\* state after that one cycle
C5_Witness ==
  \E v \in DOMAIN vms :
     /\ vms[v].state = "panicked"
     /\ vms[v].runner.cycles = 1
     /\ vms[v].hardware.pc = PROGRAM_START + 2
     /\ ~InTable(WordBeforePc(vms[v].hardware))

\* ------------------------------------------------------------------------
\* The call stack (C6, C8)
\* ------------------------------------------------------------------------
IsCall(w) == OpOf(w) = 2
IsReturn(w) == w = 238

\* VM v fetches the word at its pc and executes it in this step
Executes(v) ==
  /\ CycleStep(v)
  /\ vms[v].hardware.pc + 1 < MEM_SIZE

C7_PcWithinProgramArea ==
  \A v \in DOMAIN vms :
     vms[v].state # "panicked"
        => vms[v].hardware.pc \in PROGRAM_START..(MEM_SIZE - 1)

\* C8: a 2NNN fetched at address a stores a + 2 in the frame at stack_frame
\* and sets pc = nnn and stack_frame one higher; a 00EE sets stack_frame one
\* lower and pc to the frame it then points at; no cycle changes a frame
\* below both the old and the new stack_frame.  The return matching a call
\* therefore sets pc = a + 2 and stack_frame to its value before the call,
\* at every depth up to the 32 frames of the stack.
C8_CallReturnRoundTrip ==
  [][\A v \in DOMAIN vms :
       LET hw == vms[v].hardware
           hw2 == vms'[v].hardware
           w == WordAtPc(hw)
       IN Executes(v) =>
            /\ (IsCall(w) /\ hw.stack_frame < STACK_SIZE)
               => /\ vms'[v].state = "running"
                  /\ hw2.stack[hw.stack_frame] = hw.pc + 2
                  /\ hw2.pc = NnnOf(w)
                  /\ hw2.stack_frame = hw.stack_frame + 1
            /\ (IsReturn(w) /\ hw.stack_frame > 0)
               => /\ vms'[v].state = "running"
                  /\ hw2.pc = hw.stack[hw.stack_frame - 1]
                  /\ hw2.stack_frame = hw.stack_frame - 1
                  /\ hw2.stack = hw.stack
            /\ \A k \in 0..(STACK_SIZE - 1) :
                  (k < hw.stack_frame /\ k < hw2.stack_frame)
                  => hw2.stack[k] = hw.stack[k]]_vars

\* The chain of 32 nested subroutines has been called and has returned:
\* after 32 calls and 32 returns the VM is back behind the first call with
\* an empty stack, and the deepest frame still holds the address behind the
\* 32nd call
C8_Witness ==
  \E v \in DOMAIN vms :
     /\ vms[v].state = "running"
     /\ vms[v].runner.cycles = 2 * STACK_SIZE
     /\ vms[v].hardware.stack_frame = 0
     /\ vms[v].hardware.pc = PROGRAM_START + 2
     /\ vms[v].hardware.stack[0] = PROGRAM_START + 2
     /\ vms[v].hardware.stack[STACK_SIZE - 1] = PROGRAM_START + 4 * (STACK_SIZE - 1) + 2

\* ------------------------------------------------------------------------
\* The first cycles of the program 00E0 1200 (C9)
\* ------------------------------------------------------------------------
\* VM v is freshly constructed with a program that starts 00E0 1200
FreshClearLoop(v) ==
  /\ vms[v].runner.cycles = 0
  /\ vms[v].hardware.pc = PROGRAM_START
  /\ WordAtPc(vms[v].hardware) = 224
  /\ MemRead(vms[v].hardware.memory, PROGRAM_START + 2) * 256
       + MemRead(vms[v].hardware.memory, PROGRAM_START + 3) = 4608

\* The clear-screen effects this step sent
NewClears == SelectSeq(NewEffects, LAMBDA e : e.type = "ClearScreen")

\* C9 as stated: the first cycle of a fresh VM with the program 00E0 1200
\* emits exactly one clear-screen effect and leaves pc = 0x200.
C9_Original_OneCycleBackAtStart ==
  [][\A v \in DOMAIN vms :
       (CycleStep(v) /\ FreshClearLoop(v))
       => /\ Len(NewClears) = 1
          /\ vms'[v].hardware.pc = PROGRAM_START]_vars

\* C9: the first cycle of a fresh VM with the program 00E0 1200 emits
\* exactly one clear-screen effect and leaves pc = 0x202; the second cycle
\* executes the jump, emits nothing and leaves pc = 0x200.
C9_ClearThenJump ==
  [][\A v \in DOMAIN vms :
       /\ (CycleStep(v) /\ FreshClearLoop(v))
          => /\ Len(NewClears) = 1
             /\ Len(NewEffects) = 1
             /\ vms'[v].hardware.pc = PROGRAM_START + 2
       /\ (CycleStep(v) /\ vms[v].runner.cycles = 1
           /\ vms[v].hardware.pc = PROGRAM_START + 2
           /\ WordBeforePc(vms[v].hardware) = 224
           /\ WordAtPc(vms[v].hardware) = 4608)
          => /\ NewEffects = << >>
             /\ vms'[v].hardware.pc = PROGRAM_START]_vars

\* The VM has run the clear and the jump: two cycles, pc back at 0x200
C9_Witness ==
  \E v \in DOMAIN vms :
     /\ vms[v].state = "running"
     /\ vms[v].runner.cycles = 2
     /\ vms[v].hardware.pc = PROGRAM_START
     /\ WordAtPc(vms[v].hardware) = 224
     /\ MemRead(vms[v].hardware.memory, PROGRAM_START + 2) = 18

\* ------------------------------------------------------------------------
\* Add with carry (C10)
\* ------------------------------------------------------------------------
\* C10: 8XY4 sets the flag register to 1 exactly when reg[x] + reg[y]
\* exceeds 255, else to 0, and, unless x = 15, reg[x] to the sum mod 256;
\* every other register is left as it was.
C10_AddWithCarry ==
  [][\A v \in DOMAIN vms :
       LET hw == vms[v].hardware
           hw2 == vms'[v].hardware
           w == WordAtPc(hw)
           sum == hw.registers[XOf(w)] + hw.registers[YOf(w)]
       IN (Executes(v) /\ OpOf(w) = 8 /\ NOf(w) = 4)
          => /\ vms'[v].state = "running"
             /\ hw2.registers[NUM_REGS - 1] = IF sum > 255 THEN 1 ELSE 0
             /\ XOf(w) # NUM_REGS - 1 => hw2.registers[XOf(w)] = sum % 256
             /\ \A r \in 0..(NUM_REGS - 2) :
                   r # XOf(w) => hw2.registers[r] = hw.registers[r]
             /\ hw2.pc = hw.pc + 2]_vars

\* An 8F?4 has overflowed: register 15 was the destination and holds the
\* carry, while the sum mod 256 would have been another value
C10_Witness ==
  \E v \in DOMAIN vms :
     LET w == WordBeforePc(vms[v].hardware)
     IN /\ vms[v].state = "running"
        /\ vms[v].runner.cycles = 3
        /\ OpOf(w) = 8 /\ NOf(w) = 4 /\ XOf(w) = NUM_REGS - 1
        /\ YOf(w) # NUM_REGS - 1
        /\ vms[v].hardware.registers[YOf(w)] = 128
        /\ vms[v].hardware.registers[NUM_REGS - 1] = 1

\* ------------------------------------------------------------------------
\* The draw credit across the VM, the event loop and restarts (C2, C3)
\* ------------------------------------------------------------------------
\* VM v is the one the emulator view holds, it runs and was not told to quit
CurrentVm(v) ==
  /\ app_state = "running"
  /\ mode.kind \in {"Single", "Host"}
  /\ mode.vm = v
  /\ vms[v].state = "running"
  /\ \A k \in 1..Len(vms[v].event_bus) : vms[v].event_bus[k].type # "QuitEmulator"

\* The draw-sprite effects of VM v the event loop has not applied yet
PendingDraws(v) ==
  {k \in 1..Len(app_events) :
     app_events[k].type = "DrawSprite" /\ app_events[k].vm = v}

\* An acknowledgment of a draw of VM v waits in the channel of v
PendingAck(v) ==
  \E k \in 1..Len(vms[v].event_bus) :
     /\ vms[v].event_bus[k].type = "DisplaySynced"
     /\ vms[v].event_bus[k].of = v

\* C2: the VM holds the credit (display_sync is true) exactly when none of
\* its draw-sprite effects awaits its acknowledgment: none is queued for the
\* event loop and no acknowledgment of one waits in the VM's channel.
C2_CreditIffNoDrawInFlight ==
  \A v \in DOMAIN vms :
     CurrentVm(v)
        => (vms[v].hardware.display_sync <=> (PendingDraws(v) = {} /\ ~PendingAck(v)))

\* C3: at most one draw-sprite effect of the running VM is un-applied to the
\* frame buffer at any time.
C3_AtMostOneDrawUnapplied ==
  \A v \in DOMAIN vms : CurrentVm(v) => Cardinality(PendingDraws(v)) <= 1

\* ------------------------------------------------------------------------
\* Subtractions (C11)
\* ------------------------------------------------------------------------
\* VM v executes a word of the ALU group 8XYn in this step
AluStep(v, n) ==
  /\ Executes(v)
  /\ OpOf(WordAtPc(vms[v].hardware)) = 8
  /\ NOf(WordAtPc(vms[v].hardware)) = n

\* The difference and the flag of 8XY5 (n = 5) and 8XY7 (n = 7) on the
\* operands as they are before the step
SubExpected(hw, w) ==
  LET a == IF NOf(w) = 5 THEN hw.registers[XOf(w)] ELSE hw.registers[YOf(w)]
      b == IF NOf(w) = 5 THEN hw.registers[YOf(w)] ELSE hw.registers[XOf(w)]
  IN [diff |-> (a - b + 256) % 256, flag |-> IF a >= b THEN 1 ELSE 0]

\* C11 as stated: 8XY5 and 8XY7 leave the difference mod 256 in reg[x] and
\* the no-borrow flag in register 15, for every x.
C11_Original_SubSetsDifferenceAndFlag ==
  [][\A v \in DOMAIN vms :
       LET hw == vms[v].hardware
           w == WordAtPc(hw)
       IN (AluStep(v, 5) \/ AluStep(v, 7))
          => /\ vms'[v].hardware.registers[XOf(w)] = SubExpected(hw, w).diff
             /\ vms'[v].hardware.registers[NUM_REGS - 1] = SubExpected(hw, w).flag]_vars

\* C11: 8XY5 sets the flag register to 1 exactly when reg[x] >= reg[y] and
\* 8XY7 exactly when reg[y] >= reg[x], compared before the subtraction, and,
\* unless x = 15, reg[x] to the difference mod 256; when x = 15 the flag is
\* what remains in register 15.  No other register changes.
C11_SubSetsDifferenceAndFlag ==
  [][\A v \in DOMAIN vms :
       LET hw == vms[v].hardware
           hw2 == vms'[v].hardware
           w == WordAtPc(hw)
       IN (AluStep(v, 5) \/ AluStep(v, 7))
          => /\ vms'[v].state = "running"
             /\ hw2.registers[NUM_REGS - 1] = SubExpected(hw, w).flag
             /\ XOf(w) # NUM_REGS - 1
                => hw2.registers[XOf(w)] = SubExpected(hw, w).diff
             /\ \A r \in 0..(NUM_REGS - 2) :
                   r # XOf(w) => hw2.registers[r] = hw.registers[r]
             /\ hw2.pc = hw.pc + 2]_vars

\* An 8015 has borrowed: 0 - 1 left 255 in register 0 and 0 in the flag
C11_Witness ==
  \E v \in DOMAIN vms :
     LET w == WordBeforePc(vms[v].hardware)
     IN /\ vms[v].state = "running"
        /\ vms[v].runner.cycles = 3
        /\ OpOf(w) = 8 /\ NOf(w) = 5 /\ XOf(w) = 0 /\ YOf(w) = 1
        /\ vms[v].hardware.registers[0] = 255
        /\ vms[v].hardware.registers[1] = 1
        /\ vms[v].hardware.registers[NUM_REGS - 1] = 0

\* ------------------------------------------------------------------------
\* Shifts (C12)
\* ------------------------------------------------------------------------
\* The value 8XY6 (n = 6) and 8XYE (n = 14) shift, the result and the bit
\* shifted out
ShiftExpected(hw, w) ==
  LET src == IF hw.generation = "COSMAC" THEN hw.registers[YOf(w)]
             ELSE hw.registers[XOf(w)]
  IN IF NOf(w) = 6
     THEN [value |-> src \div 2, flag |-> src % 2]
     ELSE [value |-> (src * 2) % 256, flag |-> src \div 128]

\* C12: in COSMAC mode 8XY6 and 8XYE shift the value of reg[y], in Super
\* mode the value of reg[x]; the result goes to reg[x] and the bit shifted
\* out to the flag register (which is what remains when x = 15); with
\* reg[x] = 0x01 and reg[y] = 0x04, 8XY6 leaves 0x02 in COSMAC mode and 0x00
\* in Super mode.
C12_ShiftQuirk ==
  [][\A v \in DOMAIN vms :
       LET hw == vms[v].hardware
           hw2 == vms'[v].hardware
           w == WordAtPc(hw)
       IN /\ (AluStep(v, 6) \/ AluStep(v, 14))
             => /\ vms'[v].state = "running"
                /\ hw2.registers[NUM_REGS - 1] = ShiftExpected(hw, w).flag
                /\ XOf(w) # NUM_REGS - 1
                   => hw2.registers[XOf(w)] = ShiftExpected(hw, w).value
                /\ \A r \in 0..(NUM_REGS - 2) :
                      r # XOf(w) => hw2.registers[r] = hw.registers[r]
          /\ (AluStep(v, 6) /\ XOf(w) # NUM_REGS - 1
              /\ hw.registers[XOf(w)] = 1 /\ hw.registers[YOf(w)] = 4)
             => hw2.registers[XOf(w)] = IF hw.generation = "COSMAC" THEN 2 ELSE 0]_vars

\* A COSMAC VM has executed 8016 with reg[0] = 0x01 and reg[1] = 0x04:
\* register 0 holds 0x02, where Super mode leaves 0x00
C12_Witness ==
  \E v \in DOMAIN vms :
     LET w == WordBeforePc(vms[v].hardware)
     IN /\ vms[v].state = "running"
        /\ vms[v].runner.cycles = 3
        /\ vms[v].hardware.generation = "COSMAC"
        /\ w = Ins(8, 0, 1, 6)
        /\ MemRead(vms[v].hardware.memory, PROGRAM_START + 1) = 1
        /\ vms[v].hardware.registers[0] = 2
        /\ vms[v].hardware.registers[1] = 4
        /\ vms[v].hardware.registers[NUM_REGS - 1] = 0

\* ------------------------------------------------------------------------
\* Add immediate (C13)
\* ------------------------------------------------------------------------
\* This cycle of VM v is one the timers tick on
TickStep(v) == vms'[v].runner.cycles % 18 = 0

FlagSetter(w) ==
  \/ OpOf(w) = 8 /\ NOf(w) \in {4, 5, 6, 7, 14}
  \/ OpOf(w) = 13

\* The words that write reg[x] as their operand target, taken with x = 15:
\* 6FNN, 7FNN, 8FY0..3, CFNN, FF07, FF0A and FF65 (which loads reg[0..15])
TargetsRegister15(w) ==
  /\ XOf(w) = 15
  /\ \/ OpOf(w) \in {6, 7, 12}
     \/ OpOf(w) = 8 /\ NOf(w) \in 0..3
     \/ OpOf(w) = 15 /\ NnOf(w) \in {7, 10, 101}

\* C14 as stated: a cycle changes register 15 only if its word is one of
\* the flag setters 8XY4/5/6/7/E and DXYN.
C14_Original_OnlyFlagSettersWrite15 ==
  [][\A v \in DOMAIN vms :
       (Executes(v)
        /\ vms'[v].hardware.registers[NUM_REGS - 1]
             # vms[v].hardware.registers[NUM_REGS - 1])
       => FlagSetter(WordAtPc(vms[v].hardware))]_vars

\* C14: a cycle changes register 15 only if its word is one of the flag
\* setters 8XY4/5/6/7/E and DXYN, or one of the words that write reg[x] and
\* has x = 15 (6FNN, 7FNN, 8FY0..3, CFNN, FF07, FF0A, FF65); 6FNN leaves nn
\* in register 15.
C14_WritersOfRegister15 ==
  [][\A v \in DOMAIN vms :
       LET w == WordAtPc(vms[v].hardware)
       IN /\ (Executes(v)
              /\ vms'[v].hardware.registers[NUM_REGS - 1]
                   # vms[v].hardware.registers[NUM_REGS - 1])
             => (FlagSetter(w) \/ TargetsRegister15(w))
          /\ (Executes(v) /\ OpOf(w) = 6 /\ XOf(w) = 15)
             => vms'[v].hardware.registers[NUM_REGS - 1] = NnOf(w)]_vars

\* 6FFF has been executed: register 15 holds 0xFF, no flag value
C14_Witness ==
  \E v \in DOMAIN vms :
     /\ vms[v].state = "running"
     /\ vms[v].runner.cycles = 1
     /\ WordBeforePc(vms[v].hardware) = Ins(6, 15, 15, 15)
     /\ vms[v].hardware.registers[NUM_REGS - 1] = 255


\* ------------------------------------------------------------------------
\* Key input: the keyboard, the relay of a host and the key instructions
\* ------------------------------------------------------------------------
MaxKeyEvents == 2    \* keyboard updates and client reports

SampleKeys == {0, 1}

\* The mask with the bits of a set of key indices
KeyMask(ks) ==
  LET f[k \in 0..16] ==
        IF k = 16 THEN 0 ELSE (IF k \in ks THEN 2 ^ k ELSE 0) + f[k + 1]
  IN f[0]

\* InputState::pressed
Pressed(inp) == BitOr(inp.keys, inp.client)

\* InputState::update: for each key in index order, a key the helper
\* reports pressed sets its bit, then a key it reports released clears it
InputUpdate(inp, pressed, released) ==
  LET f[k \in 0..16] ==
        IF k = 0 THEN inp.keys
        ELSE LET i == k - 1
                 a == IF i \in pressed THEN BitOr(f[k - 1], 2 ^ i) ELSE f[k - 1]
             IN IF i \in released /\ Bit(a, i) = 1 THEN a - 2 ^ i ELSE a
  IN [inp EXCEPT !.keys = f[16]]

\* The event loop's input handling: the shared input state takes the keys
\* pressed and released since the last update.  In client mode the merged
\* mask is then written to the stream to the host.
KeyInput ==
  /\ app_state = "running"
  /\ ui.inputs < MaxKeyEvents
  /\ \E pressed \in SUBSET SampleKeys, released \in SUBSET SampleKeys :
       input' = InputUpdate(input, pressed, released)
  /\ mode' = IF mode.kind = "Client"
             THEN [mode EXCEPT !.tcp = SendOverTcp(@,
                     [type |-> "ClientMessage", keys |-> Pressed(input')])]
             ELSE mode
  /\ ui' = [ui EXCEPT !.inputs = @ + 1]
  /\ UNCHANGED << vms, app_events, pixels, gui, app_state >>

\* The relay thread of a host: a ClientMessage read from the socket is
\* queued on the event loop (the mask is what the client's pressed() gave)
RemoteKeyInput ==
  /\ app_state = "running"
  /\ mode.kind = "Host"
  /\ ui.inputs < MaxKeyEvents
  /\ \E ks \in SUBSET SampleKeys :
       app_events' = Append(app_events,
                       Tagged([type |-> "ClientMessage", keys |-> KeyMask(ks)], 0))
  /\ ui' = [ui EXCEPT !.inputs = @ + 1]
  /\ UNCHANGED << vms, mode, pixels, input, gui, app_state >>

\* reg[x] = k; EX9E or EXA1 -- and FX0A alone
KeyPrograms ==
  { << Ins(6, x, k \div 16, k % 16), Ins(14, x, yn \div 16, yn % 16) >> :
      x \in {0, 15}, k \in {0, 1, 15, 17}, yn \in {158, 161} }
  \cup { << Ins(15, x, 0, 10) >> : x \in {0, 15} }

\* The state right after a Single emulator or a host was spawned with one
\* of the key programs
InitKeys ==
  \E program \in KeyPrograms, kind \in {"Single", "Server"} :
     LET w == SpawnEmulator(World0,
                SpawnEvent(kind, "Ip", "Super", FALSE, Bytes(program),
                           DEFAULT_FPS), TRUE)
     IN /\ vms = w.vms
        /\ mode = w.mode
        /\ app_events = w.app_events
        /\ pixels = w.pixels
        /\ input = w.input
        /\ gui = w.gui
        /\ app_state = w.app_state
        /\ ui = [spawns |-> 1, inputs |-> 0]

NextKeys ==
  \/ KeyInput
  \/ RemoteKeyInput
  \/ AppUserEvent
  \/ \E v \in DOMAIN vms : VmHandleEvent(v)
  \/ \E v \in DOMAIN vms : VmRunWithin(v, MaxSystemCycles)

SpecKeys == InitKeys /\ [][NextKeys]_vars


\* VM v executes a key instruction in this step: FX0A, EX9E or EXA1
WaitKeyStep(v) ==
  /\ Executes(v)
  /\ OpOf(WordAtPc(vms[v].hardware)) = 15
  /\ NnOf(WordAtPc(vms[v].hardware)) = 10

SkipKeyStep(v) ==
  /\ Executes(v)
  /\ OpOf(WordAtPc(vms[v].hardware)) = 14
  /\ NnOf(WordAtPc(vms[v].hardware)) \in {158, 161}

\* The lowest-numbered key of a non-empty mask
LowestKey(mask) ==
  CHOOSE k \in 0..15 : Bit(mask, k) = 1 /\ \A j \in 0..(k - 1) : Bit(mask, j) = 0

\* C15: FX0A with an empty input mask leaves pc at the instruction and the
\* registers as they were; with a key pressed it leaves the lowest-numbered
\* pressed key index in reg[x] and pc behind the instruction.  (No client
\* mask is reported in the steps considered, and a step that found the
\* input lock write-held -- pc advanced, nothing else changed -- is not
\* judged.)
C15_WaitKeyTakesLowestKey ==
  [][\A v \in DOMAIN vms :
       LET hw == vms[v].hardware
           hw2 == vms'[v].hardware
           x == XOf(WordAtPc(hw))
       IN (WaitKeyStep(v) /\ input.client = 0)
          => \/ hw2 = [hw EXCEPT !.pc = hw.pc + 2]
             \/ /\ Pressed(input) = 0
                /\ hw2 = hw
             \/ /\ Pressed(input) # 0
                /\ hw2.pc = hw.pc + 2
                /\ hw2.registers[x] = LowestKey(Pressed(input))]_vars

\* C16: EX9E skips the next instruction exactly when key reg[x] mod 16 is
\* pressed, EXA1 exactly when it is not, for every key and every mask (no
\* client mask is reported in the steps considered).
C16_SkipIffKeyPressed ==
  [][\A v \in DOMAIN vms :
       LET hw == vms[v].hardware
           w == WordAtPc(hw)
           k == hw.registers[XOf(w)] % 16
           down == Bit(Pressed(input), k) = 1
           skip == IF NnOf(w) = 158 THEN down ELSE ~down
       IN (SkipKeyStep(v) /\ input.client = 0)
          => vms'[v].hardware.pc = hw.pc + (IF skip THEN 4 ELSE 2)]_vars

\* C17: on a host a key instruction acts on the merged mask: its outcome
\* is the outcome of the same instruction on an input state whose local
\* keys are keys | client.
C17_HostReadsMergedMask ==
  [][\A v \in DOMAIN vms :
       ((WaitKeyStep(v) \/ SkipKeyStep(v)) /\ mode.kind = "Host" /\ mode.vm = v)
       => \E nd \in Environment(vms[v].hardware) :
             vms'[v].hardware =
               RunHardwareCycle(vms[v].hardware, pixels,
                                [input EXCEPT !.keys = Pressed(input)], nd).hw]_vars


\* ------------------------------------------------------------------------
\* The VM thread and its control channel: scheduler and timers
\* ------------------------------------------------------------------------
MaxControlEvents == 2  \* control events sent to a VM
MaxRunnerCycles == 37  \* cycles a Runner counts

\* What the sender of the control channel may send to change the
\* scheduler, the frame rate or to end the VM; the counts are those of the
\* debugger's "next", "next 5" and "next 50" buttons, the rates the ends of
\* the slider.  The VM thread is taken with its channel here:
\* through the window a SetDebug always carries the opposite of the mode
\* the VM was last given, the channel itself carries any sequence.
ControlEvents ==
  { [type |-> "SetDebug", debug |-> TRUE], [type |-> "SetDebug", debug |-> FALSE],
    [type |-> "NextDebugCycle", count |-> 1], [type |-> "NextDebugCycle", count |-> 5],
    [type |-> "NextDebugCycle", count |-> 50],
    [type |-> "FpsChange", fps |-> 1], [type |-> "FpsChange", fps |-> 100],
    [type |-> "QuitEmulator"] }

\* The holder of the sender of the control channel of a running VM sends
\* an event: it is queued for the VM's next try_recv.  ui.sent keeps what
\* was sent.
ControlEvent(events, max) ==
  /\ app_state = "running"
  /\ Len(ui.sent) < max
  /\ \E v \in DOMAIN vms, event \in events :
       /\ Running(v)
       /\ vms' = [vms EXCEPT ![v].event_bus = Append(@, event)]
       /\ ui' = [ui EXCEPT !.sent = Append(@, event)]
  /\ UNCHANGED << mode, app_events, pixels, input, gui, app_state >>

\* reg0 = 3; then for ever: delay = reg0; sound = reg0 -- and
\* reg0 = 1; delay = reg0; then jump to itself for ever -- and
\* a jump to the last byte of memory -- and a wait for a key
TimerPrograms ==
  { << Ins(6, 0, 0, 3), Ins(15, 0, 1, 5), Ins(15, 0, 1, 8), Ins(1, 2, 0, 2) >>,
    << Ins(6, 0, 0, 1), Ins(15, 0, 1, 5), Ins(1, 2, 0, 4) >>,
    << Ins(1, 15, 15, 15) >>,
    << Ins(15, 0, 0, 10) >> }

\* The state right after a Single emulator was spawned with the timer
\* program, with or without the debugger
InitRunner ==
  \E program \in TimerPrograms, debugger \in BOOLEAN :
     LET w == SpawnEmulator(World0,
                SpawnEvent("Single", "Ip", "Super", debugger, Bytes(program),
                           DEFAULT_FPS), TRUE)
     IN /\ vms = w.vms
        /\ mode = w.mode
        /\ app_events = w.app_events
        /\ pixels = w.pixels
        /\ input = w.input
        /\ gui = w.gui
        /\ app_state = w.app_state
        /\ ui = [spawns |-> 1, sent |-> << >>]

NextRunner ==
  \/ ControlEvent(ControlEvents, MaxControlEvents)
  \/ \E v \in DOMAIN vms : VmHandleEvent(v)
  \/ \E v \in DOMAIN vms : VmRunWithin(v, MaxRunnerCycles)

SpecRunner == InitRunner /\ [][NextRunner]_vars

\* VM v handles the control event at the head of its channel in this step
HandleStep(v) ==
  /\ v \in DOMAIN vms
  /\ vms[v].state = "running"
  /\ vms[v].at = "handle_event"
  /\ vms[v].event_bus # << >>
  /\ vms'[v].event_bus = Tail(vms[v].event_bus)

\* VM v passes the second half of a loop iteration in this step
RunStep(v) ==
  /\ v \in DOMAIN vms
  /\ vms[v].state = "running"
  /\ vms[v].at = "run"
  /\ vms'[v].at = "handle_event"

\* The sum of the counts of the NextDebugCycle events of a sequence
Granted(events) ==
  LET f[k \in 0..Len(events)] ==
        IF k = 0 THEN 0
        ELSE f[k - 1] + (IF events[k].type = "NextDebugCycle" THEN events[k].count ELSE 0)
  IN f[Len(events)]

\* ------------------------------------------------------------------------
\* C18: in debug mode a cycle is executed only while cycles_to_run > 0 and
\* takes exactly one from it, so that the budget is never negative and the
\* cycles executed since debug mode was entered never exceed the counts of
\* the NextDebugCycle events processed; in normal mode every iteration
\* that does not quit executes exactly one cycle and NextDebugCycle changes
\* nothing.
\* ------------------------------------------------------------------------
C18_SchedulerGating ==
  /\ [](\A v \in DOMAIN vms :
          IsDebug(vms[v].runner)
          => /\ vms[v].runner.cycles_to_run >= 0
             /\ vms[v].runner.cycles + vms[v].runner.cycles_to_run
                  <= Granted(ui.sent) - Granted(vms[v].event_bus))
  /\ [][\A v \in DOMAIN vms :
          LET r == vms[v].runner
              r2 == vms'[v].runner
          IN /\ (RunStep(v) /\ IsDebug(r))
                => IF r.cycles_to_run > 0
                   THEN r2 = [r EXCEPT !.cycles_to_run = @ - 1, !.cycles = @ + 1]
                   ELSE /\ r2 = r
                        /\ vms'[v].hardware = vms[v].hardware
                        /\ app_events' = app_events
             /\ (RunStep(v) /\ ~IsDebug(r))
                => r2 = [r EXCEPT !.cycles = @ + 1]
             /\ (HandleStep(v) /\ Head(vms[v].event_bus).type = "NextDebugCycle")
                => /\ vms'[v].hardware = vms[v].hardware
                   /\ r2 = IF IsDebug(r)
                           THEN [r EXCEPT !.cycles_to_run =
                                            @ + Head(vms[v].event_bus).count]
                           ELSE r]_vars

\* A debug VM was given one cycle and has executed it: the budget is used
\* up and the next iteration executes nothing
C18_Witness ==
  \E v \in DOMAIN vms :
     /\ vms[v].state = "running"
     /\ vms[v].at = "run"
     /\ IsDebug(vms[v].runner)
     /\ vms[v].runner.cycles = 1
     /\ vms[v].runner.cycles_to_run = 0
     /\ vms[v].event_bus = << >>
     /\ ui.sent = << [type |-> "NextDebugCycle", count |-> 1] >>

\* ------------------------------------------------------------------------
\* Timer cadence (C19)
\* ------------------------------------------------------------------------
\* The timers after a cycle that executed word w on hw, with or without
\* the tick
TimersExpected(hw, w, tick) ==
  LET x == XOf(w)
      d == IF OpOf(w) = 15 /\ NnOf(w) = 21 THEN hw.registers[x] ELSE hw.delay_timer
      s == IF OpOf(w) = 15 /\ NnOf(w) = 24 THEN hw.registers[x] ELSE hw.sound_timer
  IN [ delay_timer |-> IF tick /\ d > 0 THEN d - 1 ELSE d,
       sound_timer |-> IF tick /\ s > 0 THEN s - 1 ELSE s ]

\* The timers change in this step by FX15, FX18 and the tick of a cycle
\* that takes the Runner's counter to a multiple of 18, and by nothing else
Cadence ==
  \A v \in DOMAIN vms :
     LET hw == vms[v].hardware
         hw2 == vms'[v].hardware
         e == IF Executes(v) /\ vms'[v].state = "running"
              THEN TimersExpected(hw, WordAtPc(hw), TickStep(v))
              ELSE [delay_timer |-> hw.delay_timer, sound_timer |-> hw.sound_timer]
     IN /\ hw2.delay_timer = e.delay_timer
        /\ hw2.sound_timer = e.sound_timer

\* C19 as stated: the count that decides the cadence is the monotonically
\* increasing count of the cycles executed over the run.
C19_Original_MonotonicCycleCount ==
  [][/\ Cadence
     /\ \A v \in DOMAIN vms : vms'[v].runner.cycles >= vms[v].runner.cycles]_vars

\* C19: the delay and sound timers are decremented by one, saturating at
\* zero, exactly in a cycle that takes the Runner's cycle counter to a
\* multiple of 18 -- the counter counts the cycles executed since the
\* Runner was created, at spawn or by the last SetDebug that replaced it --
\* and change otherwise only through FX15 and FX18.
C19_TimerCadence ==
  [][/\ Cadence
     /\ \A v \in DOMAIN vms :
          vms'[v].runner.cycles \in {vms[v].runner.cycles, vms[v].runner.cycles + 1, 0}
     /\ \A v \in DOMAIN vms :
          (vms'[v].runner.cycles = 0 /\ vms[v].runner.cycles > 0)
          => /\ HandleStep(v)
             /\ Head(vms[v].event_bus).type = "SetDebug"]_vars

\* The Runner was replaced after two cycles and has counted 18 since: the
\* twentieth cycle of the run executed FX15 (delay = 3) and ticked
C19_Witness ==
  \E v \in DOMAIN vms :
     /\ vms[v].state = "running"
     /\ vms[v].runner.cycles = CYCLES_PER_TICK
     /\ MemRead(vms[v].hardware.memory, PROGRAM_START + 1) = 3
     /\ WordBeforePc(vms[v].hardware) = Ins(15, 0, 1, 5)
     /\ vms[v].hardware.delay_timer = 2
     /\ vms[v].hardware.sound_timer = 2

\* ------------------------------------------------------------------------
\* C20: SetDebug(true) in normal mode and SetDebug(false) in debug mode
\* replace the Runner by a new one (the new mode, budget 0, cycle counter
\* 0); SetDebug(true) in debug mode leaves budget and cycle counter as
\* they are.
\* ------------------------------------------------------------------------
C20_SetDebugHandling ==
  [][\A v \in DOMAIN vms :
       (HandleStep(v) /\ Head(vms[v].event_bus).type = "SetDebug")
       => LET debug == Head(vms[v].event_bus).debug
              r == vms[v].runner
          IN /\ vms'[v].hardware = vms[v].hardware
             /\ (debug /\ IsDebug(r)) => vms'[v].runner = r
             /\ (debug # IsDebug(r))
                => vms'[v].runner =
                     [ kind |-> IF debug THEN "DebugRunner" ELSE "NormalRunner",
                       cycles_to_run |-> 0, cycles |-> 0 ]]_vars

\* A debug VM was given five cycles and then SetDebug(true): both events
\* are handled and it still has cycles of those five to run
C20_Witness ==
  \E v \in DOMAIN vms :
     /\ vms[v].state = "running"
     /\ IsDebug(vms[v].runner)
     /\ vms[v].event_bus = << >>
     /\ ui.sent = << [type |-> "NextDebugCycle", count |-> 5],
                     [type |-> "SetDebug", debug |-> TRUE] >>
     /\ vms[v].runner.cycles >= 1
     /\ vms[v].runner.cycles_to_run >= 1
     /\ vms[v].runner.cycles + vms[v].runner.cycles_to_run = 5


\* ------------------------------------------------------------------------
\* The control channel (C21, C22)
\* ------------------------------------------------------------------------
\* The events VM v has taken from its channel, oldest first: what was sent
\* less what is still queued
Handled(v) == SubSeq(ui.sent, 1, Len(ui.sent) - Len(vms[v].event_bus))

\* The value of the last event of a type in a sequence of events, or none
LastOf(events, type, field, none) ==
  LET f[k \in 0..Len(events)] ==
        IF k = 0 THEN none
        ELSE IF events[k].type = type THEN events[k][field] ELSE f[k - 1]
  IN f[Len(events)]

\* C21: the VM loop takes at most one control event per iteration and
\* applies the events in the order they were sent, none lost, duplicated
\* or reordered, in either mode: what is queued is always the rest of what
\* was sent, the frame rate and the mode of the Runner are those of the
\* last FpsChange and SetDebug taken, and after taking one event the loop
\* goes on to the run half of the iteration or ends.
C21_ControlEventsInOrder ==
  /\ [](\A v \in DOMAIN vms :
          /\ Len(vms[v].event_bus) <= Len(ui.sent)
          /\ vms[v].event_bus =
               SubSeq(ui.sent, Len(ui.sent) - Len(vms[v].event_bus) + 1, Len(ui.sent))
          /\ vms[v].fps = LastOf(Handled(v), "FpsChange", "fps", DEFAULT_FPS)
          /\ LastOf(Handled(v), "SetDebug", "debug", IsDebug(vms[v].runner))
               = IsDebug(vms[v].runner))
  /\ [][\A v \in DOMAIN vms :
          vms'[v].event_bus # vms[v].event_bus
          => \/ /\ Len(ui'.sent) = Len(ui.sent) + 1
                /\ vms'[v].event_bus = Append(vms[v].event_bus, ui'.sent[Len(ui'.sent)])
                /\ vms'[v].at = vms[v].at
             \/ /\ vms[v].at = "handle_event"
                /\ vms'[v].event_bus = Tail(vms[v].event_bus)
                /\ vms'[v].at = "run" \/ vms'[v].state = "quit"]_vars

\* A debug VM was sent FpsChange(100) and then FpsChange(1) and has taken
\* both while it had no cycle to run
C21_Witness ==
  \E v \in DOMAIN vms :
     /\ vms[v].state = "running"
     /\ IsDebug(vms[v].runner)
     /\ vms[v].runner.cycles = 0
     /\ vms[v].event_bus = << >>
     /\ ui.sent = << [type |-> "FpsChange", fps |-> 100], [type |-> "FpsChange", fps |-> 1] >>
     /\ vms[v].fps = 1

\* C22: when the VM loop takes QuitEmulator it ends at once: the VM is
\* left as it was, no cycle runs in that iteration, and from then on the
\* VM changes nothing and emits nothing.
C22_QuitEndsLoop ==
  [][\A v \in DOMAIN vms :
       /\ (HandleStep(v) /\ Head(vms[v].event_bus).type = "QuitEmulator")
          => /\ vms'[v].state = "quit"
             /\ vms'[v].hardware = vms[v].hardware
             /\ vms'[v].runner = vms[v].runner
             /\ app_events' = app_events
             /\ pixels' = pixels
       /\ vms[v].state = "quit"
          => /\ vms'[v] = vms[v]
             /\ \A k \in 1..Len(NewEffects) : NewEffects[k].vm # v]_vars

\* A VM has executed two cycles and then taken QuitEmulator
C22_Witness ==
  \E v \in DOMAIN vms :
     /\ vms[v].state = "quit"
     /\ vms[v].runner.cycles = 2
     /\ vms[v].hardware.delay_timer = 3
     /\ ui.sent = << [type |-> "QuitEmulator"] >>


\* ------------------------------------------------------------------------
\* Debug snapshots (C23)
\* ------------------------------------------------------------------------
\* The snapshots VM v published in this step
NewSnapshots(v) ==
  SelectSeq(NewEffects, LAMBDA e : e.type = "DebugEmulatorState" /\ e.vm = v)

\* The snapshot of a hardware state: pc, index, registers and the word at pc
SnapshotOf(hw) ==
  [ type |-> "DebugEmulatorState", pc |-> hw.pc, i |-> hw.i,
    reg |-> hw.registers, op |-> WordAtPc(hw) ]

\* The instruction at the pc of VM v faults whatever the environment does
CycleFaults(v) ==
  \A nd \in Environment(vms[v].hardware) :
     RunHardwareCycle(vms[v].hardware, pixels, input, nd).panic

\* VM v executes a cycle in debug mode in this step, and the instruction
\* does not fault
DebugCycle(v) ==
  /\ Executes(v)
  /\ IsDebug(vms[v].runner)
  /\ ~CycleFaults(v)

\* C23 as stated: in debug mode exactly one snapshot of the post-cycle
\* state is published after every executed cycle; in normal mode none.
C23_Original_SnapshotAfterEveryCycle ==
  [][\A v \in DOMAIN vms :
       IF DebugCycle(v)
       THEN /\ Len(NewSnapshots(v)) = 1
            /\ Untagged(NewSnapshots(v)[1]) = SnapshotOf(vms'[v].hardware)
       ELSE Len(NewSnapshots(v)) = 0]_vars

\* C23: in debug mode exactly one snapshot is published after every
\* executed cycle that leaves a whole instruction word at pc
\* (pc + 1 < 4096), with the pc, index and registers of the post-cycle
\* state and the word at that pc; a cycle that leaves pc at 4095 or beyond
\* publishes none and ends the VM thread (the read of the word is out of
\* bounds); in normal mode, and in steps that execute no cycle, no snapshot
\* is published.
C23_SnapshotAfterCycle ==
  [][\A v \in DOMAIN vms :
       IF DebugCycle(v)
       THEN IF vms'[v].hardware.pc + 1 < MEM_SIZE
            THEN /\ vms'[v].state = "running"
                 /\ Len(NewSnapshots(v)) = 1
                 /\ Untagged(NewSnapshots(v)[1]) = SnapshotOf(vms'[v].hardware)
            ELSE /\ vms'[v].state = "panicked"
                 /\ Len(NewSnapshots(v)) = 0
       ELSE Len(NewSnapshots(v)) = 0]_vars

\* A debug VM has executed 6003 and published the snapshot: pc 0x202,
\* reg[0] = 3 and the word F015
C23_Witness ==
  \E v \in DOMAIN vms :
     /\ vms[v].state = "running"
     /\ IsDebug(vms[v].runner)
     /\ vms[v].runner.cycles = 1
     /\ app_events # << >>
     /\ Untagged(app_events[Len(app_events)]) =
          [ type |-> "DebugEmulatorState", pc |-> PROGRAM_START + 2, i |-> 0,
            reg |-> [r \in 0..(NUM_REGS - 1) |-> IF r = 0 THEN 3 ELSE 0],
            op |-> Ins(15, 0, 1, 5) ]


\* ------------------------------------------------------------------------
\* Roles (C24)
\* ------------------------------------------------------------------------
\* The VM loops that are alive
Alive == {v \in DOMAIN vms : vms[v].state = "running"}

\* C24: after any sequence of spawn requests at most one VM loop is alive.
C24_AtMostOneVmAlive == Cardinality(Alive) <= 1


\* ------------------------------------------------------------------------
\* A host and its peer
\* ------------------------------------------------------------------------
MaxPeerMessages == 1
MaxGuiEvents == 1

\* The origin of an event that came in from the peer stream
Peer == 0 - 1

\* What the stream from a client can deliver to the relay thread of a host:
\* a key mask, and messages a client is not meant to send
ClientStreamMessages ==
  { [type |-> "ClientMessage", keys |-> KeyMask({1})],
    [type |-> "ClearScreen"],
    [type |-> "EmulatorEvent", event |-> [type |-> "QuitEmulator"]] }

\* A relay thread of a host that queues every message it reads
HostRelay_All(messages, max) ==
  /\ app_state = "running"
  /\ mode.kind = "Host"
  /\ Len(ui.peer) < max
  /\ \E message \in messages :
       /\ app_events' = Append(app_events, Tagged(message, Peer))
       /\ ui' = [ui EXCEPT !.peer = Append(@, message)]
  /\ UNCHANGED << vms, mode, pixels, input, gui, app_state >>

\* The relay thread of a host: of the messages it reads from the stream
\* only a ClientMessage is queued on the event loop.  ui.peer keeps what
\* was read.
HostRelay(messages, max) ==
  /\ app_state = "running"
  /\ mode.kind = "Host"
  /\ Len(ui.peer) < max
  /\ \E message \in messages :
       /\ app_events' = IF message.type = "ClientMessage"
                        THEN Append(app_events, Tagged(message, Peer))
                        ELSE app_events
       /\ ui' = [ui EXCEPT !.peer = Append(@, message)]
  /\ UNCHANGED << vms, mode, pixels, input, gui, app_state >>

\* The widgets of the settings window and the buttons of the debugger
\* window: each queues an EmulatorEvent on the event loop.  ui.sent keeps
\* what was queued.
GuiEvent(events, max) ==
  /\ app_state = "running"
  /\ Len(ui.sent) < max
  /\ \E event \in events :
       /\ event.type = "NextDebugCycle" => gui.debugger
       /\ event.type = "SetDebug" => event.debug = ~gui.start_debugger
       /\ gui' = CASE event.type = "ChangeColor" -> [gui EXCEPT !.color = event.color]
                   [] event.type = "FpsChange" -> [gui EXCEPT !.fps = event.fps]
                   [] event.type = "SetDebug" ->
                        [gui EXCEPT !.start_debugger = event.debug,
                                    !.debugger = event.debug]
                   [] OTHER -> gui
       /\ app_events' = Append(app_events,
                          Tagged([type |-> "EmulatorEvent", event |-> event], 0))
       /\ ui' = [ui EXCEPT !.sent = Append(@, event)]
  /\ UNCHANGED << vms, mode, pixels, input, app_state >>

\* The widgets used on a host: a debugger button and the fps slider
HostGuiEvents ==
  { [type |-> "NextDebugCycle", count |-> 1],
    [type |-> "FpsChange", fps |-> 100] }

\* The state right after a host was spawned with a drawing program, with
\* the debugger or without
InitHost ==
  \E program \in SystemPrograms, debugger \in BOOLEAN :
     LET w == SpawnEmulator(
                [World0 EXCEPT !.gui.start_debugger = debugger,
                               !.gui.debugger = debugger],
                SpawnEvent("Server", "Ip", "Super", debugger, Bytes(program),
                           DEFAULT_FPS), TRUE)
     IN /\ vms = w.vms
        /\ mode = w.mode
        /\ app_events = w.app_events
        /\ pixels = w.pixels
        /\ input = w.input
        /\ gui = w.gui
        /\ app_state = w.app_state
        /\ ui = [spawns |-> 1, sent |-> << >>, peer |-> << >>]

NextHost ==
  \/ HostRelay(ClientStreamMessages, MaxPeerMessages)
  \/ GuiEvent(HostGuiEvents, MaxGuiEvents)
  \/ AppUserEvent
  \/ \E v \in DOMAIN vms : VmHandleEvent(v)
  \/ \E v \in DOMAIN vms : VmRunWithin(v, MaxSystemCycles)

SpecHost == InitHost /\ [][NextHost]_vars


\* ------------------------------------------------------------------------
\* Reading the peer stream
\* ------------------------------------------------------------------------
DeserializeControl(b) ==
  LET tag == FromLE(SubSeq(b, 1, 4))
  IN CASE tag = 0 -> [type |-> "ChangeColor", color |-> FromLE(SubSeq(b, 5, 8))]
       [] tag = 1 -> [type |-> "FpsChange", fps |-> FromLE(SubSeq(b, 5, 8))]
       [] tag = 2 -> [type |-> "NextDebugCycle", count |-> FromLE(SubSeq(b, 5, 12))]
       [] tag = 3 -> [type |-> "SetDebug", debug |-> b[5] = 1]
       [] tag = 4 -> [type |-> "QuitEmulator"]
       [] tag = 5 -> [type |-> "DisplaySynced"]

\* The address a user typed, from its bytes
IpOf(b) == IF b = IpBytes("Ip") THEN "Ip" ELSE "Bad"

\* A spawn request from the bytes behind its variant index.  at is where
\* the generation starts, behind the kind and its address.
DeserializeSpawn(b) ==
  LET kind == FromLE(SubSeq(b, 1, 4))
      host == FromLE(SubSeq(b, 5, 8))
      strAt == IF kind = 1 THEN 9 ELSE 5         \* the length of the address
      strLen == FromLE(SubSeq(b, strAt, strAt + 7))
      hasStr == kind = 2 \/ (kind = 1 /\ host = 2)
      at == CASE kind = 0 -> 5
              [] kind = 1 /\ host # 2 -> 9
              [] OTHER -> strAt + 8 + strLen
      pathLen == FromLE(SubSeq(b, at + 6, at + 13))
  IN [ type |-> "SpawnEmulator",
       kind |-> CASE kind = 0 -> "Single" [] kind = 1 -> "Server" [] kind = 2 -> "Client",
       ip |-> CASE kind = 0 -> "Ip"
                [] kind = 1 /\ host = 0 -> "Empty"
                [] kind = 1 /\ host = 1 -> "NotFound"
                [] OTHER -> IpOf(SubSeq(b, strAt + 8, strAt + 7 + strLen)),
       generation |-> IF FromLE(SubSeq(b, at, at + 3)) = 0 THEN "COSMAC" ELSE "Super",
       debugger |-> b[at + 4] = 1,
       program |-> SubSeq(b, at + 14, at + 13 + pathLen),
       fps |-> FromLE(SubSeq(b, at + 14 + pathLen, at + 17 + pathLen)) ]

\* bincode::deserialize::<AppEvents>
Deserialize(b) ==
  LET tag == FromLE(SubSeq(b, 1, 4))
      body == SubSeq(b, 5, Len(b))
  IN CASE tag = 0 -> [type |-> "Nop"]
       [] tag = 1 -> [type |-> "EmulatorEvent", event |-> DeserializeControl(body)]
       [] tag = 2 -> [type |-> "ClearScreen"]
       [] tag = 3 -> [type |-> "DrawSprite", sprite |-> SubSeq(body, 1, 16),
                      x |-> body[17], y |-> body[18]]
       [] tag = 4 -> DeserializeSpawn(body)
       [] tag = 5 -> [type |-> "DebugEmulatorState",
                      pc |-> FromLE(SubSeq(body, 1, 2)),
                      i |-> FromLE(SubSeq(body, 3, 4)),
                      reg |-> [r \in 0..(NUM_REGS - 1) |-> body[5 + r]],
                      op |-> FromLE(SubSeq(body, 5 + NUM_REGS, 6 + NUM_REGS))]
       [] tag = 6 -> [type |-> "ClientMessage", keys |-> FromLE(SubSeq(body, 5, 6))]

\* The payloads of the frames of a stream, in order: a length of
\* USIZE_BYTES bytes, then as many bytes of payload
RECURSIVE Unframe(_)
Unframe(s) ==
  IF Len(s) < USIZE_BYTES THEN << >>
  ELSE LET n == FromBE(SubSeq(s, 1, USIZE_BYTES))
       IN IF Len(s) < USIZE_BYTES + n THEN << >>   \* the reader waits for more
          ELSE << SubSeq(s, USIZE_BYTES + 1, USIZE_BYTES + n) >>
                 \o Unframe(SubSeq(s, USIZE_BYTES + n + 1, Len(s)))

\* The messages a reader of the stream gets
Received(s) == [k \in 1..Len(Unframe(s)) |-> Deserialize(Unframe(s)[k])]

\* ------------------------------------------------------------------------
\* Properties of a host
\* ------------------------------------------------------------------------
IsPrefix(a, b) == Len(a) <= Len(b) /\ SubSeq(b, 1, Len(a)) = a

\* The event loop handles a user event in this step: the oldest queued
\* event leaves the queue
LoopStep == ~IsPrefix(app_events, app_events')

\* The relay thread reads a message in this step
RelayStep == Len(ui'.peer) = Len(ui.peer) + 1

\* C26: of the messages the relay thread of a host reads from the peer
\* stream, a client message is queued on the local event bus and every other
\* variant is dropped: the step that reads it changes nothing of the
\* application, and no event that came from the peer and is not a client
\* message is ever queued.
C26_HostRelayForwardsClientMessagesOnly ==
  /\ [](\A k \in DOMAIN app_events :
          app_events[k].vm = Peer => app_events[k].type = "ClientMessage")
  /\ [][RelayStep =>
          LET message == ui'.peer[Len(ui'.peer)]
          IN /\ UNCHANGED << vms, mode, pixels, input, gui, app_state >>
             /\ app_events' = IF message.type = "ClientMessage"
                              THEN Append(app_events, Tagged(message, Peer))
                              ELSE app_events]_vars

\* The relay thread of a host has read a message that is not a client
\* message, and nothing is queued on the event bus
C26_Witness ==
  /\ mode.kind = "Host"
  /\ app_state = "running"
  /\ ui.peer # << >>
  /\ ui.peer[1].type # "ClientMessage"
  /\ app_events = << >>


\* What a step appended to the peer stream
NewBytes == SubSeq(mode'.tcp, Len(mode.tcp) + 1, Len(mode'.tcp))

C28_FramedRoundTrip ==
  /\ [](\A k \in DOMAIN Unframe(mode.tcp) :
          Serialize(Deserialize(Unframe(mode.tcp)[k])) = Unframe(mode.tcp)[k])
  /\ [][mode'.tcp # mode.tcp =>
          LET e == IF mode.kind = "Client"
                   THEN [type |-> "ClientMessage", keys |-> Pressed(input')]
                   ELSE Untagged(Head(app_events))
              payload == SubSeq(NewBytes, USIZE_BYTES + 1, Len(NewBytes))
          IN /\ IsPrefix(mode.tcp, mode'.tcp)
             /\ Len(NewBytes) >= 8
             /\ FromBE(SubSeq(NewBytes, 1, 8)) = Len(payload)
             /\ payload = Serialize(e)
             /\ Deserialize(payload) = e
             /\ Received(mode'.tcp) = Append(Received(mode.tcp), e)]_vars

\* The stream of a host holds a debug snapshot, a sprite, a control event
\* and a client message
C28_Witness ==
  /\ mode.kind = "Host"
  /\ \E k \in DOMAIN Received(mode.tcp) :
        Received(mode.tcp)[k].type = "DebugEmulatorState"
  /\ \E k \in DOMAIN Received(mode.tcp) :
        Received(mode.tcp)[k].type = "DrawSprite"
  /\ \E k \in DOMAIN Received(mode.tcp) :
        Received(mode.tcp)[k].type \in {"EmulatorEvent", "ClientMessage"}


\* ------------------------------------------------------------------------
\* A client and its host
\* ------------------------------------------------------------------------
\* What the stream from a host can deliver to the relay thread of a client:
\* a host writes every user event its event loop handles, the spawn request
\* and the widget events of its own user among them
HostStreamMessages ==
  { ClearScreenEffect,
    DrawSpriteEffect([k \in 1..SPRITE_ROWS |-> IF k = 1 THEN 128 ELSE 0], 0, 0),
    [type |-> "EmulatorEvent", event |-> [type |-> "FpsChange", fps |-> 100]],
    Untagged(SpawnEvent("Single", "Ip", "Super", FALSE,
                        Bytes(<< Ins(13, 0, 0, 1), Ins(13, 0, 0, 1) >>),
                        DEFAULT_FPS)) }

\* The relay thread a client starts: every message it reads from the stream
\* is queued on the event loop, whatever its variant.  ui.peer keeps what
\* was read.  (The thread is started when the role Client is entered and
\* never ends.)
ClientRelay(messages, max) ==
  /\ app_state = "running"
  /\ Len(ui.peer) < max
  /\ \E message \in messages :
       /\ app_events' = Append(app_events, Tagged(message, Peer))
       /\ ui' = [ui EXCEPT !.peer = Append(@, message)]
  /\ UNCHANGED << vms, mode, pixels, input, gui, app_state >>

\* The state right after the role Client was entered
InitClient ==
  LET w == SpawnEmulator(World0,
             SpawnEvent("Client", "Ip", "Super", FALSE, << >>, DEFAULT_FPS), TRUE)
  IN /\ vms = w.vms
     /\ mode = w.mode
     /\ app_events = w.app_events
     /\ pixels = w.pixels
     /\ input = w.input
     /\ gui = w.gui
     /\ app_state = w.app_state
     /\ ui = [spawns |-> 1, inputs |-> 0, peer |-> << >>]

NextClient ==
  \/ ClientRelay(HostStreamMessages, MaxPeerMessages)
  \/ KeyInput
  \/ AppUserEvent
  \/ \E v \in DOMAIN vms : VmHandleEvent(v)
  \/ \E v \in DOMAIN vms : VmRunWithin(v, MaxSystemCycles)

SpecClient == InitClient /\ [][NextClient]_vars

\* C25: while the role is Client no VM loop is alive, and the handling of
\* an event that was received from the host and replayed locally neither
\* changes the role nor starts a VM loop.
C25_ClientReplayKeepsRole ==
  /\ [](mode.kind = "Client" => Alive = {})
  /\ [][(LoopStep /\ mode.kind = "Client" /\ Head(app_events).vm = Peer) =>
          /\ mode'.kind = "Client"
          /\ vms' = vms]_vars


\* ------------------------------------------------------------------------
\* The frame buffer and the VM thread
\* ------------------------------------------------------------------------
\* The colour button of the settings window, and the fps slider
ColorGuiEvents ==
  { [type |-> "ChangeColor", color |-> BLACK],
    [type |-> "ChangeColor", color |-> LIGHT_GRAY],
    [type |-> "FpsChange", fps |-> 1] }

\* The state right after a Single emulator was spawned with a drawing
\* program
InitColor ==
  \E program \in SystemPrograms :
     LET w == SpawnEmulator(World0,
                SpawnEvent("Single", "Ip", "Super", FALSE, Bytes(program),
                           DEFAULT_FPS), TRUE)
     IN /\ vms = w.vms
        /\ mode = w.mode
        /\ app_events = w.app_events
        /\ pixels = w.pixels
        /\ input = w.input
        /\ gui = w.gui
        /\ app_state = w.app_state
        /\ ui = [spawns |-> 1, sent |-> << >>]

NextColor ==
  \/ GuiEvent(ColorGuiEvents, MaxControlEvents)
  \/ AppUserEvent
  \/ \E v \in DOMAIN vms : VmHandleEvent(v)
  \/ \E v \in DOMAIN vms : VmRunWithin(v, MaxSystemCycles)

SpecColor == InitColor /\ [][NextColor]_vars

\* A step of a VM thread: neither the event loop nor the user acts
VmThreadStep == ~LoopStep /\ ui' = ui /\ vms' # vms

\* C29: no step of a VM thread changes the frame buffer, whatever control
\* event it handles and whatever instruction it executes; the frame buffer
\* changes in steps of the event loop only.
C29_VmThreadNeverWritesPixels ==
  [][VmThreadStep => pixels' = pixels]_vars


\* ------------------------------------------------------------------------
\* Role transitions
\* ------------------------------------------------------------------------
\* The spawn requests of the settings window: a Single emulator; a host
\* with no address, with none found, with one that does not parse and with
\* a good one; a client with an address that does not parse and with a good
\* one
RoleRequests ==
  { SpawnEvent("Single", "Ip", "Super", FALSE, Bytes(program), DEFAULT_FPS) :
      program \in SystemPrograms }
  \cup { SpawnEvent("Server", ip, "Super", FALSE, Bytes(program), DEFAULT_FPS) :
           ip \in {"Empty", "NotFound", "Bad", "Ip"}, program \in SystemPrograms }
  \cup { SpawnEvent("Client", ip, "Super", FALSE, << >>, DEFAULT_FPS) :
           ip \in {"Bad", "Ip"} }

\* "Create Emulator" with the kind and the address the user chose
SpawnRequest(requests, max) ==
  /\ app_state = "running"
  /\ ui.spawns < max
  /\ \E request \in requests : app_events' = Append(app_events, request)
  /\ ui' = [ui EXCEPT !.spawns = @ + 1]
  /\ UNCHANGED << vms, mode, pixels, input, gui, app_state >>

InitRoles ==
  /\ vms = World0.vms
  /\ mode = World0.mode
  /\ app_events = World0.app_events
  /\ pixels = World0.pixels
  /\ input = World0.input
  /\ gui = World0.gui
  /\ app_state = World0.app_state
  /\ ui = [spawns |-> 0]

NextRoles ==
  \/ SpawnRequest(RoleRequests, MaxSpawns)
  \/ AppUserEvent
  \/ \E v \in DOMAIN vms : VmHandleEvent(v)
  \/ \E v \in DOMAIN vms : VmRunWithin(v, MaxSystemCycles)

SpecRoles == InitRoles /\ [][NextRoles]_vars

C31_DecoderDeterminism ==
  \A v \in DOMAIN vms :
     LET hw == vms[v].hardware
     IN (Running(v) /\ hw.pc + 1 < MEM_SIZE /\ OpOf(WordAtPc(hw)) # 12) =>
          \A nd1 \in Environment(hw), nd2 \in Environment(hw) :
             nd1.checked = nd2.checked =>
               /\ RunHardwareCycle(hw, pixels, input, nd1)
                    = RunHardwareCycle(hw, pixels, input, nd2)
               /\ Len(RunHardwareCycle(hw, pixels, input, nd1).out) <= 1


\* ------------------------------------------------------------------------
\* Collision and pending clears
\* ------------------------------------------------------------------------
\* The clear-screen effects of VM v the event loop has not applied yet
PendingClears(v) ==
  {k \in 1..Len(app_events) :
     app_events[k].type = "ClearScreen" /\ app_events[k].vm = v}

\* C32: when a VM executes a draw with credit -- the cycle that computes
\* the collision flag from the frame buffer -- no clear-screen effect the
\* same VM emitted earlier is still waiting to be applied.
C32_NoDrawBeforePendingClear ==
  [][\A v \in DOMAIN vms : DrawStep(v) => PendingClears(v) = {}]_vars


\* ------------------------------------------------------------------------
\* Applying a sprite
\* ------------------------------------------------------------------------
\* The event loop handles a draw-sprite effect in this step
ApplyStep == LoopStep /\ Head(app_events).type = "DrawSprite"

\* The positions a draw-sprite effect names: column x + c of row y + r for
\* every set bit c (counted from the most significant) of sprite row r,
\* without the columns beyond the right edge
Toggled(e) ==
  {<<e.x + q[1], e.y + q[2]>> :
     q \in {cr \in (0..7) \X (0..(SPRITE_ROWS - 1)) :
              /\ e.x + cr[1] < SCREEN_WIDTH
              /\ Bit(e.sprite[cr[2] + 1], 7 - cr[1]) = 1}}

LitSet(px) == {p \in DOMAIN px : px[p] # BLACK}

SymDiff(a, b) == (a \ b) \cup (b \ a)

\* The effect is applied as the claim says
AppliedAsToggle(e) ==
  /\ LitSet(pixels') = SymDiff(LitSet(pixels), Toggled(e))
  /\ \A p \in LitSet(pixels') :
        pixels'[p] = IF p \in LitSet(pixels) THEN pixels[p] ELSE gui.color
  /\ LitSet(ApplySprite(pixels', e.sprite, e.x, e.y, gui.color)) = LitSet(pixels)

MemStep(v, nn) ==
  /\ Executes(v)
  /\ OpOf(WordAtPc(vms[v].hardware)) = 15
  /\ NnOf(WordAtPc(vms[v].hardware)) = nn

\* The memory cells two memories may differ in
Cells(m1, m2) == (DOMAIN m1) \cup (DOMAIN m2)

\* index after FX55 or FX65 as the claim has it
BlockIndexExpected(hw, x) ==
  IF hw.generation = "COSMAC" THEN (hw.i + x + 1) % U16 ELSE hw.i

\* FX55 and FX65 did what the claim says
BlockCopied(hw, hw2, x, store) ==
  /\ hw2.pc = hw.pc + 2
  /\ hw2.i = BlockIndexExpected(hw, x)
  /\ \A k \in 0..(NUM_REGS - 1) :
        hw2.registers[k] = IF ~store /\ k <= x
                           THEN MemRead(hw.memory, hw.i + k)
                           ELSE hw.registers[k]
  /\ \A b \in Cells(hw.memory, hw2.memory) :
        MemRead(hw2.memory, b) = IF store /\ b >= hw.i /\ b <= hw.i + x
                                 THEN hw.registers[b - hw.i]
                                 ELSE MemRead(hw.memory, b)
  /\ store => \A k \in 0..x : MemRead(hw2.memory, hw.i + k) = hw.registers[k]

\* C34 as stated: FX55 and FX65 copy the block, touch nothing else, and
\* move index in legacy mode only -- for every index.
C34_Original_BlockCopy ==
  [][\A v \in DOMAIN vms :
       \A store \in BOOLEAN :
          MemStep(v, IF store THEN 85 ELSE 101) =>
             /\ vms'[v].state = "running"
             /\ BlockCopied(vms[v].hardware, vms'[v].hardware,
                            XOf(WordAtPc(vms[v].hardware)), store)]_vars

\* C34: with the block inside memory (index + x < 4096), FX55 copies
\* reg[0..=x] to memory[index..=index+x] and FX65 copies
\* memory[index..=index+x] to reg[0..=x], touching no other register or
\* memory cell; in legacy mode each advances index by x + 1 (modulo 2^16),
\* in extended mode index stays; and in extended mode FX65 right after FX55
\* with the same x leaves the registers as they were.  With index + x
\* beyond memory the VM thread ends with a fault.
C34_BlockCopyInsideMemory ==
  /\ [](\A v \in DOMAIN vms :
          LET hw == vms[v].hardware
          IN \A x \in 0..(NUM_REGS - 1) :
               (hw.generation = "Super" /\ hw.i + x < MEM_SIZE) =>
                  OpLoadRegs(OpStoreRegs(hw, x).hw, x).hw.registers = hw.registers)
  /\ [][\A v \in DOMAIN vms :
          \A store \in BOOLEAN :
             MemStep(v, IF store THEN 85 ELSE 101) =>
                LET hw == vms[v].hardware
                    x == XOf(WordAtPc(hw))
                IN IF hw.i + x < MEM_SIZE
                   THEN /\ vms'[v].state = "running"
                        /\ BlockCopied(hw, vms'[v].hardware, x, store)
                   ELSE vms'[v].state = "panicked"]_vars

\* A legacy VM has stored sixteen registers and loaded sixteen others from
\* behind them; an extended one has stored and loaded back
C34_Witness ==
  \E v \in DOMAIN vms :
     LET hw == vms[v].hardware
     IN /\ vms[v].state = "running"
        /\ hw.pc = PROGRAM_START + 12
        /\ MemRead(hw.memory, PROGRAM_START + 8) = 255
        /\ MemRead(hw.memory, PROGRAM_START + 9) = 85
        /\ \/ hw.generation = "COSMAC" /\ hw.i = 768 + 32 /\ hw.registers[0] = 0
           \/ hw.generation = "Super" /\ hw.i = 768 /\ hw.registers[0] = 255


\* FX33 did what the claim says: three decimal digits of reg[x] at index,
\* index + 1 and index + 2, and nothing else changed
BcdStored(hw, hw2, x) ==
  LET d0 == MemRead(hw2.memory, hw.i)
      d1 == MemRead(hw2.memory, hw.i + 1)
      d2 == MemRead(hw2.memory, hw.i + 2)
  IN /\ {d0, d1, d2} \subseteq 0..9
     /\ 100 * d0 + 10 * d1 + d2 = hw.registers[x]
     /\ \A b \in Cells(hw.memory, hw2.memory) \ {hw.i, hw.i + 1, hw.i + 2} :
           MemRead(hw2.memory, b) = MemRead(hw.memory, b)
     /\ hw2.registers = hw.registers
     /\ hw2.i = hw.i
     /\ hw2.pc = hw.pc + 2

\* C35 as stated: FX33 stores the three digits for every reg[x] -- and for
\* every index.
C35_Original_BcdDigits ==
  [][\A v \in DOMAIN vms :
       MemStep(v, 51) =>
          /\ vms'[v].state = "running"
          /\ BcdStored(vms[v].hardware, vms'[v].hardware,
                       XOf(WordAtPc(vms[v].hardware)))]_vars

\* C35: with index + 2 inside memory, FX33 writes three decimal digits
\* d0, d1, d2 (each 0..9) to memory[index], memory[index + 1] and
\* memory[index + 2] with 100*d0 + 10*d1 + d2 = reg[x], for every reg[x] in
\* 0..255, and changes no other memory cell, no register and not index.
\* With index + 2 beyond memory the VM thread ends with a fault.
C35_BcdDigitsInsideMemory ==
  [][\A v \in DOMAIN vms :
       MemStep(v, 51) =>
          LET hw == vms[v].hardware
          IN IF hw.i + 2 < MEM_SIZE
             THEN /\ vms'[v].state = "running"
                  /\ BcdStored(hw, vms'[v].hardware, XOf(WordAtPc(hw)))
             ELSE vms'[v].state = "panicked"]_vars

\* FX33 has stored 2, 5, 5 for reg[15] = 255
C35_Witness ==
  \E v \in DOMAIN vms :
     LET hw == vms[v].hardware
     IN /\ vms[v].state = "running"
        /\ hw.pc = PROGRAM_START + 6
        /\ hw.registers[NUM_REGS - 1] = 255
        /\ hw.i = 4093
        /\ MemRead(hw.memory, 4093) = 2
        /\ MemRead(hw.memory, 4094) = 5
        /\ MemRead(hw.memory, 4095) = 5


\* ------------------------------------------------------------------------
\* Waiting
\* ------------------------------------------------------------------------
\* The instruction at the pc of VM v waits: a draw without credit, or a key
\* wait with no key pressed
Waits(v) ==
  LET hw == vms[v].hardware
      w == WordAtPc(hw)
  IN \/ OpOf(w) = 13 /\ ~hw.display_sync
     \/ OpOf(w) = 15 /\ NnOf(w) = 10 /\ input.keys = 0

\* C36: in debug mode a cycle that executes a waiting instruction is a
\* cycle like any other -- it takes one unit of the budget, counts toward
\* the timer cadence and publishes a snapshot -- and it leaves pc,
\* registers, index and memory as they were.
C36_WaitIsPolling ==
  [][\A v \in DOMAIN vms :
       (Executes(v) /\ IsDebug(vms[v].runner) /\ Waits(v)) =>
          LET hw == vms[v].hardware
              hw2 == vms'[v].hardware
          IN /\ vms'[v].runner.cycles_to_run = vms[v].runner.cycles_to_run - 1
             /\ vms'[v].runner.cycles = vms[v].runner.cycles + 1
             /\ Len(NewSnapshots(v)) = 1
             /\ hw2.pc = hw.pc
             /\ hw2.registers = hw.registers
             /\ hw2.i = hw.i
             /\ hw2.memory = hw.memory]_vars


\* ------------------------------------------------------------------------
\* Liveness of the credit protocol
\* ------------------------------------------------------------------------
\* Draw the glyph row at memory[0] at the origin, for ever -- and
\* reg1 = 30; draw five glyph rows at (0, 30), for ever
LivePrograms ==
  { << Ins(13, 0, 1, 1), Ins(1, 2, 0, 0) >>,
    << Ins(6, 1, 1, 14), Ins(13, 0, 1, 5), Ins(1, 2, 0, 2) >> }

InitLive == InitWith(LivePrograms)

\* The event loop and the VM thread are scheduled fairly
SpecLive ==
  /\ InitLive
  /\ [][NextCpu]_vars
  /\ WF_vars(AppUserEvent)
  /\ \A v \in {1} : WF_vars(VmHandleEvent(v)) /\ WF_vars(VmRun(v))

\* C37: every draw-sprite effect a VM has emitted is eventually followed by
\* a DisplaySynced event in the control channel of that VM, or by the
\* credit that event gives back.
C37_DrawIsEventuallyAcknowledged ==
  \A v \in {1} :
     (PendingDraws(v) # {}) ~> (PendingAck(v) \/ vms[v].hardware.display_sync)


\* C38: a cycle that executes FX0A and leaves pc behind the instruction
\* found a non-empty input mask and wrote reg[x] from it; a cycle that
\* cannot take the input lock leaves pc at the instruction.
C38_WaitKeyCompletesOnlyWithKey ==
  [][\A v \in DOMAIN vms :
       LET hw == vms[v].hardware
           hw2 == vms'[v].hardware
           x == XOf(WordAtPc(hw))
       IN (WaitKeyStep(v) /\ hw2.pc # hw.pc)
          => /\ input.keys # 0
             /\ hw2.registers[x] = LeadingZeros16(input.keys)]_vars


\* C39: the event loop applies every draw-sprite effect a VM can emit
\* without a fault: rows that fall below the bottom edge are left out and
\* the loop keeps running.
C39_ApplyNeverFaults ==
  [][ApplyStep => app_state' = "running"]_vars


\* C40: handling a spawn request that fails on its address leaves the role
\* and the VM behind it as they were: nothing is sent to the VM's control
\* channel, and the VM of a Single or Host role is still running.
C40_FailedSpawnChangesNothing ==
  [][(/\ LoopStep
      /\ Head(app_events).type = "SpawnEmulator"
      /\ AddressError(Head(app_events)))
     => /\ mode'.kind = mode.kind
        /\ mode'.vm = mode.vm
        /\ vms' = vms]_vars

=============================================================================
